---------------------------- MODULE Spec2Model ----------------------------
(***************************************************************************)
(* Classroom behaviour recognizer: the detection-association,              *)
(* classification and temporal-aggregation logic of src/backend.           *)
(*                                                                         *)
(* Three specifications are given:                                         *)
(*   SpecVideo   pose3_video_service.py: analyze_video_individual (batch   *)
(*               and frame-by-frame modes) and analyze_video_class         *)
(*   SpecApp     app.py: one /api/behavior-analyze-bbox or                 *)
(*               /api/behavior-analyze-individual request                  *)
(*               (analyze_with_bbox, analyze_individual_video), run while  *)
(*               the /api/behavior-params handler may be called            *)
(*   SpecCall    one call of a function of the pipeline (an aggregator, an *)
(*               associator or a classifier) on arguments drawn from a     *)
(*               bounded set                                               *)
(*                                                                         *)
(* Pixel coordinates that the code keeps as floats are kept in tenths of a *)
(* pixel (suffix 10); confidences are kept in hundredths.                  *)
(***************************************************************************)
EXTENDS Integers, Sequences, FiniteSets, TLC

VARIABLES
    \* ---- pose3_video_service.py ----
    call,             \* which entry point of VideoBehaviorAnalysisService runs
    cap,              \* the sampled frames of the opened video (cv2.VideoCapture)
    target,           \* target_bbox {x, y, w, h}
    batch_size,       \* batch_size of analyze_video_individual
    b_i,              \* _analyze_with_batch: loop index i (1-based position in cap)
    batch_frames,     \* _analyze_with_batch: batch_frames
    batch_indices,    \* _analyze_with_batch: batch_indices
    b_stats,          \* behavior_stats of the batch-mode call
    processed,        \* frames handed to _process_batch so far
    f_i,              \* _analyze_frame_by_frame: loop index i
    f_stats,          \* behavior_stats of the frame-by-frame call
    c_bad,            \* analyze_video_class: frame offsets that cannot be decoded
    c_frame_idx,      \* analyze_video_class: frame_idx of the for loop
    c_pc,             \* analyze_video_class: "loop" or "done"
    c_stats,          \* analyze_video_class: behavior_stats
    c_result,         \* analyze_video_class: result of the last detection run
    latest_behaviors, \* analyze_video_class: latest_behaviors
    processed_count,  \* analyze_video_class: processed_count
    \* ---- app.py ----
    behavior_params,  \* the module-level behavior_params dict (app.py:37)
    status,           \* HTTP status of the last POST /api/behavior-params (0: none yet)
    n_updates,        \* number of POST /api/behavior-params handled
    behavior_analyzer, \* behavior_service.behavior_analyzer and its behavior_params
    request,          \* which analysis endpoint was called: "bbox" or "individual"
    \* ---- bbox_tracker_service.py / individual_behavior_service.py ----
    pc,               \* position of the analysis call
    frames,           \* frames: what the detectors return on each decoded image
    initial_bbox,     \* initial_bbox {x, y, width, height}
    analyzer_params,  \* IndividualBehaviorAnalyzer.behavior_params (copied in __init__)
    tracker,          \* tracker: "None" or "tracker"
    tracker_name,     \* tracker_name
    bbox,             \* bbox (x, y, w, h) after conversion and clamping
    success,          \* success: "True", "False" or "None"
    frame_index,      \* i of the for loop over frames (the next frame_index)
    frame_results,    \* frame_results
    frames_with_student,    \* frames_tracked / frames_with_student
    frames_without_student, \* frames_lost / frames_without_student
    threshold_log,    \* head_down_threshold values logged by _calculate_head_pose
    summary,          \* the summary of the returned result
    error,            \* the exception that left the analysis call ("" when none)
    \* ---- one call of a function on its arguments ----
    op,               \* the function called ("none" when no such call is modelled)
    arg,              \* its arguments
    out,              \* its return value, once it has returned
    done              \* whether it has returned

videoVars == <<call, cap, target, batch_size, b_i, batch_frames, batch_indices,
               b_stats, processed, f_i, f_stats, c_bad, c_frame_idx, c_pc,
               c_stats, c_result, latest_behaviors, processed_count>>

appVars == <<behavior_params, status, n_updates, behavior_analyzer, request, pc, frames, initial_bbox,
             analyzer_params, tracker, tracker_name, bbox, success, frame_index,
             frame_results, frames_with_student, frames_without_student,
             threshold_log, summary, error>>

callVars == <<op, arg, out, done>>

vars == <<videoVars, appVars, callVars>>

-----------------------------------------------------------------------------
(* Bounds of the model *)

MaxSamples == 3

MaxBatch == 3

\* max_frames of analyze_video_class (duration * fps)
MaxClassFrames == 104

-----------------------------------------------------------------------------
(* Generic helpers *)

Max(a, b) == IF a >= b THEN a ELSE b

Min(a, b) == IF a <= b THEN a ELSE b

SeqsUpTo(S, n) == UNION {[1..k -> S] : k \in 0..n}

\* len(x[a:b]) for a Python sequence of length n (negative indices count from
\* the end, out-of-range indices are clipped).
SliceLen(a, b, n) ==
    LET lo == IF a < 0 THEN Max(0, a + n) ELSE Min(a, n)
        hi == IF b < 0 THEN Max(0, b + n) ELSE Min(b, n)
    IN  Max(0, hi - lo)

-----------------------------------------------------------------------------
(* pose2_detection_service.py: composite behaviour of one person *)

BehaviorLabels == {"listening", "using_computer", "using_phone",
                   "reading_writing", "neutral"}

ZeroStats == [b \in BehaviorLabels |-> 0]

\* The same test with the two x bounds included.
FindNearbyObjectsInclusive(objects, person_bbox, nose_visible, nose_y10) ==
    IF ~nose_visible THEN <<>>
    ELSE LET person_width == person_bbox.x2 - person_bbox.x1
             near(o) == /\ o.cy10 > nose_y10
                        /\ 10 * person_bbox.x1 - 3 * person_width <= o.cx10
                        /\ o.cx10 <= 10 * person_bbox.x2 + 3 * person_width
         IN  SelectSeq(objects, near)

\* _find_nearby_objects: objects whose centre is below the nose and within the
\* person's box widened by 30% on each side.
FindNearbyObjects(objects, person_bbox, nose_visible, nose_y10) ==
    IF ~nose_visible THEN <<>>
    ELSE LET person_width == person_bbox.x2 - person_bbox.x1
             near(o) == /\ o.cy10 > nose_y10
                        /\ 10 * person_bbox.x1 - 3 * person_width < o.cx10
                        /\ o.cx10 < 10 * person_bbox.x2 + 3 * person_width
         IN  SelectSeq(objects, near)

HasClass(objs, name) == \E k \in 1..Len(objs) : objs[k].class_name = name

\* The same decision with the phone tested before the laptop.
AnalyzeBehaviorPhoneFirst(person, objects) ==
    IF person.head_pose = "looking_up" THEN "listening"
    ELSE IF person.head_pose = "looking_down" THEN
        LET nearby == FindNearbyObjects(objects, person.bbox, person.nose_visible,
                                        person.nose_y10)
        IN  IF HasClass(nearby, "cell phone") THEN "using_phone"
            ELSE IF HasClass(nearby, "laptop") THEN "using_computer"
            ELSE "reading_writing"
    ELSE "neutral"

\* _analyze_behaviors, for one person.
AnalyzeBehavior(person, objects) ==
    IF person.head_pose = "looking_up" THEN "listening"
    ELSE IF person.head_pose = "looking_down" THEN
        LET nearby == FindNearbyObjects(objects, person.bbox, person.nose_visible,
                                        person.nose_y10)
        IN  IF HasClass(nearby, "laptop") THEN "using_computer"
            ELSE IF HasClass(nearby, "cell phone") THEN "using_phone"
            ELSE "reading_writing"
    ELSE "neutral"

\* _analyze_behaviors: one behaviour per person, in detector order.
AnalyzeBehaviors(persons, objects) ==
    [k \in 1..Len(persons) |-> AnalyzeBehavior(persons[k], objects)]

\* detect_objects: the centre is truncated to whole pixels.
DetectObjects(raw_objects) ==
    [k \in 1..Len(raw_objects) |->
        [class_name |-> raw_objects[k].class_name,
         cx10 |-> 10 * ((raw_objects[k].x1 + raw_objects[k].x2) \div 2),
         cy10 |-> 10 * ((raw_objects[k].y1 + raw_objects[k].y2) \div 2)]]

\* _parse_object_result: the centre keeps its half pixel.
ParseObjectResult(raw_objects) ==
    [k \in 1..Len(raw_objects) |->
        [class_name |-> raw_objects[k].class_name,
         cx10 |-> 5 * (raw_objects[k].x1 + raw_objects[k].x2),
         cy10 |-> 5 * (raw_objects[k].y1 + raw_objects[k].y2)]]

\* analyze_behavior_frame on a frame whose detectors return (the except branch,
\* success = False, is taken only when a detector raises).
AnalyzeBehaviorFrame(frame) ==
    [success |-> TRUE,
     behaviors |-> AnalyzeBehaviors(frame.persons, DetectObjects(frame.objects))]

-----------------------------------------------------------------------------
(* The frames a video may hold (detector outputs per frame) *)

PersonUp == [head_pose |-> "looking_up", nose_visible |-> TRUE, nose_y10 |-> 123,
             bbox |-> [x1 |-> 0, y1 |-> 0, x2 |-> 40, y2 |-> 40]]

PersonDown == [head_pose |-> "looking_down", nose_visible |-> TRUE, nose_y10 |-> 123,
               bbox |-> [x1 |-> 0, y1 |-> 0, x2 |-> 40, y2 |-> 40]]

PersonNeutral == [head_pose |-> "neutral", nose_visible |-> TRUE, nose_y10 |-> 123,
                  bbox |-> [x1 |-> 0, y1 |-> 0, x2 |-> 40, y2 |-> 40]]

Laptop == [class_name |-> "laptop", x1 |-> 10, y1 |-> 10, x2 |-> 30, y2 |-> 15]

Phone == [class_name |-> "cell phone", x1 |-> 10, y1 |-> 20, x2 |-> 20, y2 |-> 30]

Readable(persons, objects) ==
    [ret |-> TRUE, width |-> 64, height |-> 48,
     persons |-> persons, objects |-> objects]

Unreadable == [ret |-> FALSE, width |-> 0, height |-> 0,
               persons |-> <<>>, objects |-> <<>>]

VideoFrames == {Unreadable,
                Readable(<<>>, <<>>),
                Readable(<<PersonUp>>, <<>>),
                Readable(<<PersonNeutral>>, <<>>),
                Readable(<<PersonDown>>, <<>>),
                Readable(<<PersonDown>>, <<Laptop>>),
                Readable(<<PersonDown, PersonUp>>, <<Phone>>)}

\* Offsets of analyze_video_class's video that may fail to decode.
BadOffsets == {2, 50, 100}

TargetBoxes == {[x |-> 8, y |-> 4, w |-> 40, h |-> 40],
                [x |-> 70, y |-> 4, w |-> 40, h |-> 40]}

-----------------------------------------------------------------------------
(* pose3_video_service.py: analyze_video_individual *)

\* behavior_stats[behavior_type] += 1 for the first detected person, if any and
\* if its label is a key of behavior_stats.
CountFirst(stats, behaviors) ==
    IF Len(behaviors) > 0 /\ behaviors[1] \in DOMAIN stats
    THEN [stats EXCEPT ![behaviors[1]] = @ + 1]
    ELSE stats

\* cropped_frame.size of frame[crop_y1:crop_y2, crop_x1:crop_x2]
CroppedSize(frame, t) ==
    LET crop_x1 == Max(0, t.x)
        crop_y1 == Max(0, t.y)
        crop_x2 == Min(frame.width, t.x + t.w)
        crop_y2 == Min(frame.height, t.y + t.h)
    IN  SliceLen(crop_y1, crop_y2, frame.height)
          * SliceLen(crop_x1, crop_x2, frame.width) * 3

\* _process_batch: the frames of one batch, in order; the detectors return for
\* each frame of the batch what they return for that frame alone.
RECURSIVE ProcessBatch(_, _)
ProcessBatch(batch, stats) ==
    IF batch = <<>> THEN stats
    ELSE LET f == Head(batch)
             persons == f.persons
             objects == ParseObjectResult(f.objects)
             counted == IF Len(persons) > 0
                        THEN CountFirst(stats, AnalyzeBehaviors(persons, objects))
                        ELSE stats
         IN  ProcessBatch(Tail(batch), counted)

\* Whether the batch is handed to _process_batch after frame i (0-based) was
\* appended to it.
FlushNow(n_collected, i) ==
    n_collected = batch_size \/ i = Len(cap) - 1

\* One iteration of the for loop of _analyze_with_batch.
BatchStep ==
    /\ call = "individual"
    /\ b_i < Len(cap)
    /\ LET i == b_i
           frame == cap[i + 1]
       IN  /\ b_i' = b_i + 1
           /\ IF ~frame.ret \/ CroppedSize(frame, target) = 0
              THEN UNCHANGED <<batch_frames, batch_indices, b_stats, processed>>
              ELSE LET frames2 == Append(batch_frames, frame)
                       indices2 == Append(batch_indices, i)
                   IN  IF FlushNow(Len(frames2), i)
                       THEN /\ b_stats' = ProcessBatch(frames2, b_stats)
                            /\ processed' = processed \cup
                                   {indices2[k] : k \in 1..Len(indices2)}
                            /\ batch_frames' = <<>>
                            /\ batch_indices' = <<>>
                       ELSE /\ batch_frames' = frames2
                            /\ batch_indices' = indices2
                            /\ UNCHANGED <<b_stats, processed>>
    /\ UNCHANGED <<call, cap, target, batch_size, f_i, f_stats, c_bad, c_frame_idx,
                   c_pc, c_stats, c_result, latest_behaviors, processed_count>>
    /\ UNCHANGED appVars
    /\ UNCHANGED callVars

\* One iteration of the for loop of _analyze_frame_by_frame.
FrameByFrameStep ==
    /\ call = "individual"
    /\ f_i < Len(cap)
    /\ LET frame == cap[f_i + 1]
       IN  /\ f_i' = f_i + 1
           /\ IF ~frame.ret \/ CroppedSize(frame, target) = 0
              THEN UNCHANGED f_stats
              ELSE LET result == AnalyzeBehaviorFrame(frame)
                   IN  f_stats' = IF result.success
                                  THEN CountFirst(f_stats, result.behaviors)
                                  ELSE f_stats
    /\ UNCHANGED <<call, cap, target, batch_size, b_i, batch_frames, batch_indices,
                   b_stats, processed, c_bad, c_frame_idx, c_pc, c_stats,
                   c_result, latest_behaviors, processed_count>>
    /\ UNCHANGED appVars
    /\ UNCHANGED callVars

BatchDone == call = "individual" /\ b_i = Len(cap)

FrameByFrameDone == call = "individual" /\ f_i = Len(cap)

-----------------------------------------------------------------------------
(* pose3_video_service.py: analyze_video_class *)

\* range(0, max_frames, 2)
SampleStride == 2

\* frame_idx % 100 == 0
DetectEvery == 100

\* _calculate_behavior_stats
CalculateBehaviorStats(behaviors) ==
    [b \in BehaviorLabels \cup {"unknown"} |->
        Cardinality({k \in 1..Len(behaviors) : behaviors[k] = b})]

\* What analyze_behavior_frame may return for a decoded frame.
ClassDetections ==
    {[success |-> FALSE, behaviors |-> <<>>]}
        \cup {AnalyzeBehaviorFrame(f) : f \in {g \in VideoFrames : g.ret}}

SampledOffsets == {k \in 0..(MaxClassFrames - 1) : k % SampleStride = 0}

\* The statistics after a detection returned `result`.
UpdateClassStats(stats, result) ==
    IF result.success
    THEN LET counts == CalculateBehaviorStats(result.behaviors)
         IN  [b \in DOMAIN stats |-> stats[b] + counts[b]]
    ELSE stats

\* result before the first detection run of the call.
NoResult == [run |-> FALSE, success |-> FALSE, behaviors |-> <<>>]

\* The cached annotation after a detection returned `result`.
UpdateLatest(latest, result) ==
    IF result.success /\ Len(result.behaviors) > 0
    THEN [set |-> TRUE, behaviors |-> result.behaviors]
    ELSE latest

\* One iteration of the for loop of analyze_video_class (output_video = True).
ClassStep ==
    /\ call = "class"
    /\ c_pc = "loop"
    /\ IF c_frame_idx \in c_bad
       THEN \* if not ret: break
            /\ c_pc' = "done"
            /\ UNCHANGED <<c_frame_idx, c_stats, c_result, latest_behaviors,
                           processed_count>>
       ELSE /\ IF c_frame_idx % DetectEvery = 0
               THEN \E result \in ClassDetections :
                       /\ c_stats' = UpdateClassStats(c_stats, result)
                       /\ c_result' = [run |-> TRUE, success |-> result.success,
                                       behaviors |-> result.behaviors]
                       /\ latest_behaviors' = UpdateLatest(latest_behaviors, result)
               ELSE UNCHANGED <<c_stats, c_result, latest_behaviors>>
            /\ processed_count' = processed_count + 1
            /\ c_frame_idx' = c_frame_idx + SampleStride
            /\ c_pc' = IF c_frame_idx + SampleStride < MaxClassFrames
                       THEN "loop" ELSE "done"
    /\ UNCHANGED <<call, cap, target, batch_size, b_i, batch_frames, batch_indices,
                   b_stats, processed, f_i, f_stats, c_bad>>
    /\ UNCHANGED appVars
    /\ UNCHANGED callVars

-----------------------------------------------------------------------------
(* app.py: the process-wide behaviour parameters *)

\* behavior_params as created at import time.  object_min_confidence is in
\* hundredths.
DefaultBehaviorParams ==
    [head_up_threshold |-> 2, head_down_threshold |-> 8,
     writing_threshold |-> 30, phone_threshold |-> -10,
     object_min_confidence |-> 50]

\* behavior_params of ClassroomBehaviorAnalyzer() constructed with no argument.
ClassroomDefaultParams ==
    [head_up_threshold |-> 2, head_down_threshold |-> 8,
     writing_threshold |-> 30, phone_threshold |-> -10,
     object_min_confidence |-> 20]

\* behavior_service.behavior_analyzer before get_behavior_analyzer created it
NoAnalyzer == [created |-> FALSE, behavior_params |-> ClassroomDefaultParams]

NoBBox == [x |-> 0, y |-> 0, w |-> 0, h |-> 0]

NoSummary == [empty |-> TRUE, total_frames |-> 0, head_percentages |-> <<>>,
              hand_percentages |-> <<>>, object_percentages |-> <<>>,
              behavior_percentages |-> <<>>, attention_score |-> 0]

\* No single function call is modelled.
CallIdle ==
    /\ op = "none"
    /\ arg = <<>>
    /\ out = <<>>
    /\ done = FALSE

\* The application before any request: no analysis call is running.
AppIdle ==
    /\ behavior_params = DefaultBehaviorParams
    /\ status = 0
    /\ n_updates = 0
    /\ behavior_analyzer = NoAnalyzer
    /\ request = "none"
    /\ pc = "idle"
    /\ frames = <<>>
    /\ initial_bbox = [x |-> 0, y |-> 0, width |-> 0, height |-> 0]
    /\ analyzer_params = DefaultBehaviorParams
    /\ tracker = "None"
    /\ tracker_name = ""
    /\ bbox = NoBBox
    /\ success = "None"
    /\ frame_index = 0
    /\ frame_results = <<>>
    /\ frames_with_student = 0
    /\ frames_without_student = 0
    /\ threshold_log = {}
    /\ summary = NoSummary
    /\ error = ""

-----------------------------------------------------------------------------
(* Specification of the video service *)

NoLatest == [set |-> FALSE, behaviors |-> <<>>]

InitVideo ==
    /\ call \in {"individual", "class"}
    /\ IF call = "individual"
       THEN /\ cap \in SeqsUpTo(VideoFrames, MaxSamples) \ {<<>>}
            /\ target \in TargetBoxes
            /\ batch_size \in 1..MaxBatch
            /\ c_bad = {}
            /\ c_pc = "idle"
       ELSE /\ cap = <<>>
            /\ target = [x |-> 0, y |-> 0, w |-> 0, h |-> 0]
            /\ batch_size = 1
            /\ c_bad \in SUBSET BadOffsets
            /\ c_pc = "loop"
    /\ b_i = 0
    /\ batch_frames = <<>>
    /\ batch_indices = <<>>
    /\ b_stats = ZeroStats
    /\ processed = {}
    /\ f_i = 0
    /\ f_stats = ZeroStats
    /\ c_frame_idx = 0
    /\ c_stats = ZeroStats
    /\ c_result = NoResult
    /\ latest_behaviors = NoLatest
    /\ processed_count = 0
    /\ AppIdle
    /\ CallIdle

NextVideo == BatchStep \/ FrameByFrameStep \/ ClassStep

SpecVideo == InitVideo /\ [][NextVideo]_vars

-----------------------------------------------------------------------------
(* Claims about the video service *)

\* C1: for every sequence of sampled frames and every batch size >= 1, batch
\* mode ends with exactly the behavior_stats of frame-by-frame mode.
C1_BatchEqualsFrameByFrame ==
    (BatchDone /\ FrameByFrameDone) => b_stats = f_stats

\* The sampled offsets of analyze_video_class that can be decoded.
ReadableOffsets == SampledOffsets \ c_bad

\* C6: a frame that cannot be read is skipped and the frames after it are still
\* processed: analyze_video_class ends having processed every readable sampled
\* frame, and in both modes of analyze_video_individual the loop goes on to the
\* last sampled frame, every readable frame before the loop index having been
\* collected or processed.
C6_ReadFailureSkipsFrame ==
    /\ c_pc = "done" => processed_count = Cardinality(ReadableOffsets)
    /\ (call = "individual" /\ f_i < Len(cap)) => ENABLED FrameByFrameStep
    /\ (call = "individual" /\ b_i < Len(cap)) => ENABLED BatchStep
    /\ \A k \in 1..b_i :
          (cap[k].ret /\ CroppedSize(cap[k], target) > 0) =>
              \/ (k - 1) \in processed
              \/ \E j \in 1..Len(batch_indices) : batch_indices[j] = k - 1

-----------------------------------------------------------------------------
(* bbox_tracker_service.py: geometry and classification of one pose *)

\* MaxFrames bounds len(frames), MaxUpdates the number of parameter updates.
MaxFrames == 2

MaxUpdates == 2

\* if w < 10 or h < 10: raise
MinBoxSize == 10

\* search_margin of the fallback search
SearchMargin == 50

\* is_visible(kpt, threshold=0.3), in hundredths
IsVisibleThreshold == 30

\* A quotient of two integers, kept exact; den > 0.
Ratio(n, d) == [num |-> n, den |-> d]

RatioLess(a, b) == a.num * b.den < b.num * a.den

\* The literal 0.1 of the IoU comparisons.
OneTenth == Ratio(1, 10)

\* _calculate_iou of BBoxTrackerAnalyzer, on {x1, y1, x2, y2} dicts.
CalculateIou(bbox1, bbox2) ==
    LET x1_i == Max(bbox1.x1, bbox2.x1)
        y1_i == Max(bbox1.y1, bbox2.y1)
        x2_i == Min(bbox1.x2, bbox2.x2)
        y2_i == Min(bbox1.y2, bbox2.y2)
        intersection == (x2_i - x1_i) * (y2_i - y1_i)
        area1 == (bbox1.x2 - bbox1.x1) * (bbox1.y2 - bbox1.y1)
        area2 == (bbox2.x2 - bbox2.x1) * (bbox2.y2 - bbox2.y1)
        union == area1 + area2 - intersection
    IN  IF x2_i < x1_i \/ y2_i < y1_i THEN Ratio(0, 1)
        ELSE IF union > 0 THEN Ratio(intersection, union) ELSE Ratio(0, 1)

\* is_visible of _analyze_single_person_pose; a keypoint is [y, c], c being its
\* confidence in hundredths (the x coordinate is read by no classifier).
IsVisible(kpt) == kpt.c > IsVisibleThreshold

\* _calculate_head_pose: nose_diff = nose.y - (left_eye.y + right_eye.y) / 2,
\* compared after doubling both sides.
CalculateHeadPose(params, kpts) ==
    LET nose_diff2 == 2 * kpts.nose.y - (kpts.left_eye.y + kpts.right_eye.y)
    IN  IF nose_diff2 <= 2 * params.head_down_threshold
        THEN "looking_up" ELSE "looking_down"

\* _calculate_hand_activity: wrist_diff = avg_wrist_y - avg_shoulder_y, doubled.
CalculateHandActivity(params, kpts) ==
    LET wrist_diff2 == (kpts.left_wrist.y + kpts.right_wrist.y)
                         - (kpts.left_shoulder.y + kpts.right_shoulder.y)
    IN  IF wrist_diff2 > 2 * params.writing_threshold THEN "writing"
        ELSE IF wrist_diff2 < 2 * params.phone_threshold THEN "using_phone"
        ELSE "neutral"

HeadVisible(kpts) ==
    IsVisible(kpts.nose) /\ (IsVisible(kpts.left_eye) \/ IsVisible(kpts.right_eye))

HandsVisible(kpts) ==
    /\ IsVisible(kpts.left_shoulder) \/ IsVisible(kpts.right_shoulder)
    /\ IsVisible(kpts.left_wrist) \/ IsVisible(kpts.right_wrist)

\* _analyze_single_person_pose of BBoxTrackerAnalyzer.  A behavior dict is kept
\* as the set of its keys and the values of the keys the summaries read.
BBoxSinglePersonPose(params, kpts) ==
    [keys |-> {"head_pose", "hand_activity"},
     head_pose |-> IF HeadVisible(kpts) THEN CalculateHeadPose(params, kpts)
                   ELSE "neutral",
     hand_activity |-> IF HandsVisible(kpts)
                       THEN CalculateHandActivity(params, kpts)
                       ELSE "neutral",
     desktop_objects |-> <<>>]

\* The name appended for a COCO class id by _analyze_desktop_objects_in_bbox.
DesktopObjectName(class_id) ==
    CASE class_id = 67 -> "cell_phone"
      [] class_id = 63 -> "laptop"
      [] class_id = 73 -> "book"
      [] OTHER -> ""

\* _analyze_desktop_objects_in_bbox
AnalyzeDesktopObjectsInBBox(objects, region) ==
    LET inside(o) == /\ RatioLess(OneTenth, CalculateIou(region, o.bbox))
                     /\ DesktopObjectName(o.class_id) # ""
        kept == SelectSeq(objects, inside)
    IN  [k \in 1..Len(kept) |-> DesktopObjectName(kept[k].class_id)]

\* The same loop with "iou >= best_iou": the last of the best poses wins.
RECURSIVE LastBestPose(_, _, _, _)
LastBestPose(poses, region, k, best) ==
    IF k > Len(poses) THEN best
    ELSE LET iou == CalculateIou(region, poses[k].bbox)
         IN  LastBestPose(poses, region, k + 1,
                          IF ~RatioLess(iou, best.best_iou)
                          THEN [best_iou |-> iou, target_pose |-> k]
                          ELSE best)

\* The loop of _analyze_bbox_region over the detected poses, from pose k on:
\* target_pose is the index of the chosen pose in poses (0 for None).
RECURSIVE BestPose(_, _, _, _)
BestPose(poses, region, k, best) ==
    IF k > Len(poses) THEN best
    ELSE LET iou == CalculateIou(region, poses[k].bbox)
         IN  BestPose(poses, region, k + 1,
                      IF RatioLess(best.best_iou, iou)
                      THEN [best_iou |-> iou, target_pose |-> k]
                      ELSE best)

NoBehavior == [keys |-> {}, head_pose |-> "", hand_activity |-> "",
               desktop_objects |-> <<>>]

\* The result dict of one frame that is returned with both flags set: keys
\* are the keys of the dict among student_found, pose_found and behavior;
\* student_found and pose_found are what result.get(key, False) reads.
FrameResult(index, student_found, pose_found, behavior) ==
    [frame_index |-> index, student_found |-> student_found,
     pose_found |-> pose_found, behavior |-> behavior,
     keys |-> {"student_found", "pose_found"}
                 \cup (IF pose_found THEN {"behavior"} ELSE {})]

\* The dict returned by _analyze_frame_for_student when no face matches:
\* {frame_index, student_found: False, timestamp}.
FaceNotFoundResult(index) ==
    [FrameResult(index, FALSE, FALSE, NoBehavior) EXCEPT !.keys = {"student_found"}]

\* _analyze_bbox_region on one frame, the detectors returning frame.poses and
\* frame.objects; params is self.behavior_params at the time of the call.
AnalyzeBBoxRegion(params, frame, index, region) ==
    LET match == BestPose(frame.poses, region, 1,
                          [best_iou |-> Ratio(0, 1), target_pose |-> 0])
    IN  IF match.target_pose = 0 \/ RatioLess(match.best_iou, OneTenth)
        THEN FrameResult(index, FALSE, FALSE, NoBehavior)
        ELSE LET behavior == BBoxSinglePersonPose(
                                 params, frame.poses[match.target_pose].kpts)
                 desktop_objects == AnalyzeDesktopObjectsInBBox(frame.objects, region)
             IN  FrameResult(index, TRUE, TRUE,
                     [behavior EXCEPT
                         !.keys = @ \cup {"bbox", "desktop_objects"},
                         !.desktop_objects = desktop_objects])

\* Whether _calculate_head_pose runs (and logs the threshold it compares with)
\* when _analyze_bbox_region is called on the frame.
HeadPoseCalculated(frame, region) ==
    LET match == BestPose(frame.poses, region, 1,
                          [best_iou |-> Ratio(0, 1), target_pose |-> 0])
    IN  /\ match.target_pose # 0
        /\ ~RatioLess(match.best_iou, OneTenth)
        /\ HeadVisible(frame.poses[match.target_pose].kpts)

\* round(count / total * 100, 2), in hundredths of a percent.
RoundDiv(n, d) ==
    LET q == n \div d
        r == n % d
    IN  IF 2 * r > d \/ (2 * r = d /\ q % 2 = 1) THEN q + 1 ELSE q

Percentage(count, total) == RoundDiv(count * 10000, total)

\* d.get(k, default)
Get(d, k, default) == IF k \in DOMAIN d THEN d[k] ELSE default

\* {**d1, **d2}
Merge(d1, d2) ==
    [k \in DOMAIN d1 \cup DOMAIN d2 |-> IF k \in DOMAIN d2 THEN d2[k] ELSE d1[k]]

\* The weighted sum without the clamp max(0, min(100, .)).
UnclampedAttentionScore(looking_up_pct, writing_pct, using_phone_pct) ==
    RoundDiv(6 * looking_up_pct + 3 * writing_pct - 3 * using_phone_pct, 10)

\* round(max(0, min(100, looking_up_pct * 0.6 + writing_pct * 0.3
\*                        - using_phone_pct * 0.3)), 2), in hundredths; the
\* percentages are in hundredths, the weighted sum in thousandths.
AttentionScore(looking_up_pct, writing_pct, using_phone_pct) ==
    RoundDiv(Max(0, Min(100000, 6 * looking_up_pct + 3 * writing_pct
                                   - 3 * using_phone_pct)), 10)

RECURSIVE CountObject(_, _)
CountObject(results, obj) ==
    IF results = <<>> THEN 0
    ELSE LET r == Head(results)
             here == IF r.pose_found
                     THEN Cardinality({k \in 1..Len(r.behavior.desktop_objects) :
                                          r.behavior.desktop_objects[k] = obj})
                     ELSE 0
         IN  here + CountObject(Tail(results), obj)

\* _summarize_bbox_analysis
SummarizeBBoxAnalysis(results) ==
    IF results = <<>> THEN NoSummary
    ELSE
    LET total_frames == Len(results)
        counted == {k \in 1..Len(results) : results[k].pose_found}
        head(k) == IF "head_pose" \in results[k].behavior.keys
                   THEN results[k].behavior.head_pose ELSE "unknown"
        hand(k) == IF "hand_activity" \in results[k].behavior.keys
                   THEN results[k].behavior.hand_activity ELSE "neutral"
        objs == UNION {{results[k].behavior.desktop_objects[j] :
                           j \in 1..Len(results[k].behavior.desktop_objects)} :
                       k \in counted}
        head_pose_stats == [l \in {head(k) : k \in counted} |->
                               Cardinality({k \in counted : head(k) = l})]
        hand_activity_stats == [l \in {hand(k) : k \in counted} |->
                                   Cardinality({k \in counted : hand(k) = l})]
        desktop_object_stats == [o \in objs |-> CountObject(results, o)]
        head_percentages == [l \in DOMAIN head_pose_stats |->
                                Percentage(head_pose_stats[l], total_frames)]
        hand_percentages == [l \in DOMAIN hand_activity_stats |->
                                Percentage(hand_activity_stats[l], total_frames)]
        behavior_percentages == Merge(head_percentages, hand_percentages)
    IN  [empty |-> FALSE,
         total_frames |-> total_frames,
         head_percentages |-> head_percentages,
         hand_percentages |-> hand_percentages,
         object_percentages |->
             [o \in objs |-> Percentage(desktop_object_stats[o], total_frames)],
         behavior_percentages |-> behavior_percentages,
         attention_score |->
             AttentionScore(Get(behavior_percentages, "looking_up", 0),
                            Get(behavior_percentages, "writing", 0),
                            Get(behavior_percentages, "using_phone", 0))]

-----------------------------------------------------------------------------
(* behavior_service.py and individual_behavior_service.py: the face-matched  *)
(* analysis of one frame                                                     *)

\* keypoints[k][2] > 0.5, in hundredths
KeypointThreshold == 50

\* similarity > 0.5, in hundredths
SimilarityThreshold == 50

\* annotated images are drawn when frame_index % 10 == 0
AnnotateEvery == 10

Kept(kpt) == kpt.c > KeypointThreshold

\* _analyze_head_pose: vertical_diff = nose.y - shoulder_center.y, doubled.
AnalyzeHeadPose(params, kpts) ==
    LET vertical_diff2 == 2 * kpts.nose.y
                            - (kpts.left_shoulder.y + kpts.right_shoulder.y)
    IN  IF vertical_diff2 < 2 * params.head_up_threshold THEN "looking_up"
        ELSE IF vertical_diff2 > 2 * params.head_down_threshold THEN "looking_down"
        ELSE "neutral"

\* _analyze_hand_activity
AnalyzeHandActivity(params, kpts) ==
    IF ~Kept(kpts.left_wrist) /\ ~Kept(kpts.right_wrist) THEN "unknown"
    ELSE LET wrist == IF Kept(kpts.left_wrist) THEN kpts.left_wrist
                      ELSE kpts.right_wrist
             vertical_diff == wrist.y - kpts.nose.y
         IN  IF vertical_diff > params.writing_threshold THEN "writing"
             ELSE IF vertical_diff < params.phone_threshold THEN "using_phone"
             ELSE "resting"

\* _analyze_single_person_pose of ClassroomBehaviorAnalyzer: {} when the nose
\* or a shoulder is not visible.
AnalyzeSinglePersonPose(params, kpts) ==
    IF ~Kept(kpts.nose) \/ ~Kept(kpts.left_shoulder) \/ ~Kept(kpts.right_shoulder)
    THEN NoBehavior
    ELSE [keys |-> {"head_pose", "hand_activity", "confidence", "keypoints_visible"},
          head_pose |-> AnalyzeHeadPose(params, kpts),
          hand_activity |-> AnalyzeHandActivity(params, kpts),
          desktop_objects |-> <<>>]

\* coco_labels[class_id], for the class ids of the scenes
CocoLabel(class_id) ==
    CASE class_id = 0 -> "person"
      [] class_id = 63 -> "laptop"
      [] class_id = 66 -> "keyboard"
      [] class_id = 67 -> "cell phone"
      [] class_id = 73 -> "book"
      [] OTHER -> "unknown"

\* _analyze_desktop_objects: the labels of the accepted objects
AnalyzeDesktopObjects(params, objects) ==
    LET accepted(o) ==
            /\ CocoLabel(o.class_id) \in {"book", "laptop", "cell phone", "keyboard"}
            /\ o.conf >= params.object_min_confidence
        kept == SelectSeq(objects, accepted)
    IN  [k \in 1..Len(kept) |-> CocoLabel(kept[k].class_id)]

\* The same quotient with the intersection taken without max(0, .).
CalculateIouUnclipped(bbox1, bbox2) ==
    LET x1 == Max(bbox1.x1, bbox2.x1)
        y1 == Max(bbox1.y1, bbox2.y1)
        x2 == Min(bbox1.x2, bbox2.x2)
        y2 == Min(bbox1.y2, bbox2.y2)
        intersection == (x2 - x1) * (y2 - y1)
        area1 == (bbox1.x2 - bbox1.x1) * (bbox1.y2 - bbox1.y1)
        area2 == (bbox2.x2 - bbox2.x1) * (bbox2.y2 - bbox2.y1)
        union == area1 + area2 - intersection
    IN  IF union = 0 THEN Ratio(0, 1) ELSE Ratio(intersection, union)

\* _calculate_iou of IndividualBehaviorAnalyzer, on [x1, y1, x2, y2] arrays.
CalculateIouArrays(bbox1, bbox2) ==
    LET x1 == Max(bbox1.x1, bbox2.x1)
        y1 == Max(bbox1.y1, bbox2.y1)
        x2 == Min(bbox1.x2, bbox2.x2)
        y2 == Min(bbox1.y2, bbox2.y2)
        intersection == Max(0, x2 - x1) * Max(0, y2 - y1)
        area1 == (bbox1.x2 - bbox1.x1) * (bbox1.y2 - bbox1.y1)
        area2 == (bbox2.x2 - bbox2.x1) * (bbox2.y2 - bbox2.y1)
        union == area1 + area2 - intersection
    IN  IF union = 0 THEN Ratio(0, 1) ELSE Ratio(intersection, union)

\* The loop of _analyze_frame_for_student over the detected faces, from face k
\* on: target_face is the index of the chosen face (0 for None).
RECURSIVE TargetFace(_, _, _)
TargetFace(faces, k, best) ==
    IF k > Len(faces) THEN best
    ELSE LET similarity == faces[k].similarity
         IN  TargetFace(faces, k + 1,
                 IF similarity > SimilarityThreshold /\ similarity > best.max_similarity
                 THEN [max_similarity |-> similarity, target_face |-> k]
                 ELSE best)

\* The loop of _match_pose_to_bbox, from pose k on.
RECURSIVE BestMatch(_, _, _, _)
BestMatch(poses, face_bbox, k, best) ==
    IF k > Len(poses) THEN best
    ELSE LET iou == CalculateIouArrays(face_bbox, poses[k].bbox)
         IN  BestMatch(poses, face_bbox, k + 1,
                       IF RatioLess(best.best_iou, iou)
                       THEN [best_iou |-> iou, best_match |-> k]
                       ELSE best)

\* _match_pose_to_bbox: the index of the matched pose, 0 for (None, None).
MatchPoseToBBox(poses, face_bbox) ==
    LET best == BestMatch(poses, face_bbox, 1,
                          [best_iou |-> Ratio(0, 1), best_match |-> 0])
    IN  IF RatioLess(Ratio(3, 10), best.best_iou) THEN best.best_match ELSE 0

\* _analyze_frame_for_student: the classification is done by a temporary
\* ClassroomBehaviorAnalyzer() (_analyze_single_person_pose and
\* _analyze_desktop_objects of IndividualBehaviorAnalyzer).  raises tells that
\* _draw_individual_annotations read a missing key of behavior.
AnalyzeFrameForStudent(frame, index) ==
    LET face == TargetFace(frame.faces, 1,
                           [max_similarity |-> -100, target_face |-> 0])
    IN  IF face.target_face = 0
        THEN [raises |-> FALSE, result |-> FaceNotFoundResult(index)]
        ELSE
        LET target_pose == MatchPoseToBBox(frame.poses,
                                           frame.faces[face.target_face].bbox)
        IN  IF target_pose = 0
            THEN [raises |-> FALSE,
                  result |-> FrameResult(index, TRUE, FALSE, NoBehavior)]
            ELSE
            LET temp == AnalyzeSinglePersonPose(ClassroomDefaultParams,
                                                frame.poses[target_pose].kpts)
                behavior == [temp EXCEPT
                    !.keys = @ \cup {"bbox", "face_similarity", "desktop_objects"},
                    !.desktop_objects =
                        AnalyzeDesktopObjects(ClassroomDefaultParams, frame.objects)]
            IN  [raises |-> index % AnnotateEvery = 0
                              /\ "head_pose" \notin behavior.keys,
                 result |-> FrameResult(index, TRUE, TRUE, behavior)]


HeadPoseLabels == {"looking_up", "looking_down", "neutral"}

HandActivityLabels == {"writing", "using_phone", "resting", "unknown"}

\* Whether _summarize_individual_analysis reads a key that a counted behavior
\* does not have (behavior["head_pose"], behavior["hand_activity"]).
SummaryKeyError(results) ==
    \E k \in 1..Len(results) :
        /\ results[k].pose_found
        /\ \/ "head_pose" \notin results[k].behavior.keys
           \/ "hand_activity" \notin results[k].behavior.keys

\* _summarize_individual_analysis, when it returns
SummarizeIndividualAnalysis(results) ==
    IF results = <<>>
    THEN [empty |-> TRUE, total_frames |-> 0,
          behavior_percentages |->
              [l \in HeadPoseLabels \cup HandActivityLabels |-> 0]]
    ELSE
    LET total_frames == Len(results)
        counted == {k \in 1..Len(results) : results[k].pose_found}
        head_pose_stats == [l \in HeadPoseLabels |->
            Cardinality({k \in counted : results[k].behavior.head_pose = l})]
        hand_activity_stats == [l \in HandActivityLabels |->
            Cardinality({k \in counted : results[k].behavior.hand_activity = l})]
        behavior_percentages ==
            [l \in HeadPoseLabels \cup HandActivityLabels |->
                IF l \in HeadPoseLabels
                THEN Percentage(head_pose_stats[l], total_frames)
                ELSE Percentage(hand_activity_stats[l], total_frames)]
    IN  [empty |-> FALSE,
         total_frames |-> total_frames,
         behavior_percentages |-> behavior_percentages,
         attention_score |->
             AttentionScore(behavior_percentages["looking_up"],
                            behavior_percentages["writing"],
                            behavior_percentages["using_phone"])]

-----------------------------------------------------------------------------
(* The requests: decoded images with what the detectors return on them *)

\* first_frame.shape of the decoded images
FrameShape == [width |-> 640, height |-> 480]

Box(x1, y1, x2, y2) == [x1 |-> x1, y1 |-> y1, x2 |-> x2, y2 |-> y2]

Kpt(y, c) == [y |-> y, c |-> c]

\* Nose 5 px below the eye line and 30 px above the shoulders, wrists on the desk.
KptsUp ==
    [nose |-> Kpt(130, 90), left_eye |-> Kpt(125, 90), right_eye |-> Kpt(125, 90),
     left_shoulder |-> Kpt(160, 90), right_shoulder |-> Kpt(160, 90),
     left_wrist |-> Kpt(200, 90), right_wrist |-> Kpt(200, 90)]

\* Nose 15 px below the eye line, wrists not detected.
KptsDown ==
    [nose |-> Kpt(140, 90), left_eye |-> Kpt(125, 90), right_eye |-> Kpt(125, 90),
     left_shoulder |-> Kpt(160, 90), right_shoulder |-> Kpt(160, 90),
     left_wrist |-> Kpt(0, 10), right_wrist |-> Kpt(0, 10)]

\* Head turned away: nose and eyes not detected, wrists raised.
KptsHidden ==
    [nose |-> Kpt(0, 20), left_eye |-> Kpt(0, 20), right_eye |-> Kpt(0, 20),
     left_shoulder |-> Kpt(160, 90), right_shoulder |-> Kpt(160, 90),
     left_wrist |-> Kpt(140, 90), right_wrist |-> Kpt(140, 90)]

PoseNear(kpts) == [bbox |-> Box(100, 100, 180, 220), kpts |-> kpts]

PoseFar(kpts) == [bbox |-> Box(400, 100, 480, 220), kpts |-> kpts]

FaceOfTarget == [bbox |-> Box(100, 100, 180, 180), similarity |-> 80]

FaceOfOther == [bbox |-> Box(100, 100, 180, 180), similarity |-> 40]

LaptopOnDesk == [bbox |-> Box(100, 180, 180, 230), class_id |-> 63, conf |-> 40]

Scene(faces, poses, objects) == [faces |-> faces, poses |-> poses, objects |-> objects]

Scenes ==
    {Scene(<<>>, <<>>, <<>>),
     Scene(<<FaceOfTarget>>, <<PoseNear(KptsUp)>>, <<LaptopOnDesk>>),
     Scene(<<FaceOfTarget>>, <<PoseFar(KptsUp), PoseNear(KptsDown)>>, <<>>),
     Scene(<<FaceOfTarget>>, <<PoseNear(KptsHidden)>>, <<>>),
     Scene(<<FaceOfTarget>>, <<PoseFar(KptsUp)>>, <<>>),
     Scene(<<FaceOfOther>>, <<PoseNear(KptsUp)>>, <<>>)}

\* initial_bbox of the request: inside the frame, entirely to the right of it,
\* overlapping its lower right corner, and overlapping its upper left corner.
InitialBoxes ==
    {[x |-> 100, y |-> 100, width |-> 80, height |-> 120],
     [x |-> 700, y |-> 100, width |-> 50, height |-> 50],
     [x |-> 600, y |-> 400, width |-> 100, height |-> 100],
     [x |-> -20, y |-> -20, width |-> 100, height |-> 100]}

\* (success, tracked_bbox) returned by tracker.update
TrackerUpdates ==
    {[success |-> TRUE, bbox |-> [x |-> 100, y |-> 100, w |-> 80, h |-> 120]],
     [success |-> TRUE, bbox |-> [x |-> 300, y |-> 300, w |-> 80, h |-> 120]],
     [success |-> FALSE, bbox |-> NoBBox]}

\* tracker_methods, in order
TrackerMethods ==
    <<"cv2.legacy.TrackerCSRT_create", "cv2.TrackerCSRT_create",
      "cv2.TrackerNano_create", "cv2.TrackerVit_create", "cv2.TrackerMIL_create",
      "cv2.legacy.TrackerKCF_create", "cv2.TrackerKCF_create">>

\* 'MIL' in tracker_name
IsMIL(name) == name \in {"cv2.TrackerMIL_create", "cv2.TrackerMIL_create (fallback)"}

\* What tracker.init(first_frame, bbox) does: it returns True, False or None
\* (the non-legacy API returns nothing) or raises.
InitOutcomes == {"True", "False", "None", "raise"}


-----------------------------------------------------------------------------
(* app.py: POST /api/behavior-params *)

ParamNames == {"head_up_threshold", "head_down_threshold", "writing_threshold",
               "phone_threshold", "object_min_confidence"}

\* A field of the request body: absent, a number, or a value float() rejects.
Absent == [present |-> FALSE, ok |-> FALSE, v |-> 0]

Num(v) == [present |-> TRUE, ok |-> TRUE, v |-> v]

NotANumber == [present |-> TRUE, ok |-> FALSE, v |-> 0]

NoFields == [n \in ParamNames |-> Absent]

UpdateRequests ==
    {NoFields,
     [NoFields EXCEPT !.head_up_threshold = Num(-40), !.head_down_threshold = Num(3)],
     [NoFields EXCEPT !.head_up_threshold = Num(5), !.head_down_threshold = NotANumber],
     [NoFields EXCEPT !.object_min_confidence = Num(150)]}

\* Whether the handler writes field n of data into behavior_params.
FieldWritten(data, n) ==
    /\ data[n].present
    /\ data[n].ok
    /\ n = "object_min_confidence" => (0 <= data[n].v /\ data[n].v <= 100)

\* Whether the handler appends an error for field n of data.
FieldError(data, n) == data[n].present /\ ~FieldWritten(data, n)

\* behavior_params after the five "if ... in data" blocks of the handler.
WriteFields(params, data) ==
    [n \in ParamNames |-> IF FieldWritten(data, n) THEN data[n].v ELSE params[n]]

\* The POST branch of handle_behavior_params.
HandleBehaviorParams ==
    /\ n_updates < MaxUpdates
    /\ \E data \in UpdateRequests :
          IF \A n \in ParamNames : ~data[n].present
          THEN \* if not data: return 400
               /\ status' = 400
               /\ UNCHANGED <<behavior_params, behavior_analyzer>>
          ELSE /\ behavior_params' = WriteFields(behavior_params, data)
               /\ IF \E n \in ParamNames : FieldError(data, n)
                  THEN /\ status' = 400
                       /\ UNCHANGED behavior_analyzer
                  ELSE \* get_behavior_analyzer().update_params(behavior_params)
                       /\ status' = 200
                       /\ behavior_analyzer' =
                              [created |-> TRUE, behavior_params |-> behavior_params']
    /\ n_updates' = n_updates + 1
    /\ UNCHANGED <<request, pc, frames, initial_bbox, analyzer_params, tracker,
                   tracker_name, bbox, success, frame_index, frame_results,
                   frames_with_student, frames_without_student, threshold_log,
                   summary, error>>
    /\ UNCHANGED videoVars
    /\ UNCHANGED callVars


-----------------------------------------------------------------------------
(* app.py, bbox_tracker_service.py: POST /api/behavior-analyze-bbox *)

\* BBoxTrackerAnalyzer(behavior_params) keeps the dict it is given, so that
\* self.behavior_params is the variable behavior_params; the
\* IndividualBehaviorAnalyzer copies the values into a dict of its own.
CreateAnalyzer ==
    /\ pc = "idle"
    /\ request \in {"bbox", "individual"}
    /\ IF request = "bbox"
       THEN /\ pc' = "create"
            /\ UNCHANGED analyzer_params
       ELSE /\ pc' = "frames"
            /\ analyzer_params' = behavior_params
    /\ UNCHANGED <<behavior_params, status, n_updates, behavior_analyzer, request,
                   frames, initial_bbox, tracker, tracker_name, bbox, success,
                   frame_index, frame_results, frames_with_student,
                   frames_without_student, threshold_log, summary, error>>
    /\ UNCHANGED videoVars
    /\ UNCHANGED callVars

\* The loop over tracker_methods: the first constructor that does not raise
\* gives the tracker (first = 0: every constructor raises).
CreateTracker ==
    /\ pc = "create"
    /\ \E first \in 0..Len(TrackerMethods) :
          IF first = 0
          THEN /\ pc' = "raised"
               /\ error' = "RuntimeError: no tracker"
               /\ UNCHANGED <<tracker, tracker_name>>
          ELSE /\ pc' = "validate"
               /\ tracker' = "tracker"
               /\ tracker_name' = TrackerMethods[first]
               /\ UNCHANGED error
    /\ UNCHANGED <<behavior_params, status, n_updates, behavior_analyzer, request,
                   frames, initial_bbox, analyzer_params, bbox, success,
                   frame_index, frame_results, frames_with_student,
                   frames_without_student, threshold_log, summary>>
    /\ UNCHANGED videoVars
    /\ UNCHANGED callVars

\* The clip of the position alone, width and height kept.
ClampPositionOnly(b) ==
    [x |-> Max(0, Min(b.x, FrameShape.width - 1)),
     y |-> Max(0, Min(b.y, FrameShape.height - 1)),
     w |-> b.w, h |-> b.h]

\* The box handed to tracker.init: bbox clipped to the image when it is not
\* inside it.
ClampBBox(b) ==
    IF b.x < 0 \/ b.y < 0 \/ b.x + b.w > FrameShape.width
                          \/ b.y + b.h > FrameShape.height
    THEN LET x == Max(0, Min(b.x, FrameShape.width - 1))
             y == Max(0, Min(b.y, FrameShape.height - 1))
         IN  [x |-> x, y |-> y,
              w |-> Min(b.w, FrameShape.width - x),
              h |-> Min(b.h, FrameShape.height - y)]
    ELSE b

\* Conversion and validation of initial_bbox.
ValidateBBox ==
    /\ pc = "validate"
    /\ LET clamped == ClampBBox([x |-> initial_bbox.x, y |-> initial_bbox.y,
                                 w |-> initial_bbox.width, h |-> initial_bbox.height])
       IN  /\ bbox' = clamped
           /\ IF clamped.w < MinBoxSize \/ clamped.h < MinBoxSize
              THEN /\ pc' = "raised"
                   /\ error' = "RuntimeError: bbox too small"
              ELSE /\ pc' = "init"
                   /\ UNCHANGED error
    /\ UNCHANGED <<behavior_params, status, n_updates, behavior_analyzer, request,
                   frames, initial_bbox, analyzer_params, tracker, tracker_name,
                   success, frame_index, frame_results, frames_with_student,
                   frames_without_student, threshold_log, summary>>
    /\ UNCHANGED videoVars
    /\ UNCHANGED callVars

\* success after the try block that initialises the tracker: first is what
\* tracker.init does, mil what the init of the TrackerMIL fallback does (or
\* that its constructor raises).
InitSuccess(name, first, mil) ==
    IF first = "raise" THEN "None"
    ELSE IF first = "True" \/ IsMIL(name) THEN first
    ELSE IF mil = "raise" THEN "False"
    ELSE mil

InitTracker ==
    /\ pc = "init"
    /\ \E first \in InitOutcomes, mil \in InitOutcomes :
          LET result == InitSuccess(tracker_name, first, mil)
              fallback == first \in {"False", "None"} /\ ~IsMIL(tracker_name)
          IN  /\ success' = result
              /\ tracker_name' = IF fallback /\ mil = "True"
                                 THEN "cv2.TrackerMIL_create (fallback)"
                                 ELSE tracker_name
              /\ IF result = "False"
                 THEN /\ pc' = "raised"
                      /\ error' = "RuntimeError: init failed"
                      /\ UNCHANGED tracker
                 ELSE /\ pc' = "frames"
                      /\ tracker' = IF result = "None" THEN "None" ELSE tracker
                      /\ UNCHANGED error
    /\ UNCHANGED <<behavior_params, status, n_updates, behavior_analyzer, request,
                   frames, initial_bbox, analyzer_params, bbox, frame_index,
                   frame_results, frames_with_student, frames_without_student,
                   threshold_log, summary>>
    /\ UNCHANGED videoVars
    /\ UNCHANGED callVars


\* current_bbox built from tracked_bbox
CurrentBBox(b) == Box(b.x, b.y, b.x + b.w, b.y + b.h)

\* search_bbox of the fallback search
SearchBBox(b) ==
    Box(Max(0, b.x - SearchMargin), Max(0, b.y - SearchMargin),
        Min(FrameShape.width, b.x + b.w + SearchMargin),
        Min(FrameShape.height, b.y + b.h + SearchMargin))

\* The same list when only the results with student_found are kept.
AppendIfFound(results, result) ==
    IF result.student_found THEN Append(results, result) ELSE results

\* frame_results.append(result) after a successful tracker.update
AppendTracked(results, result) == Append(results, result)

\* One iteration of the for loop of analyze_with_bbox.
BBoxFrameStep ==
    /\ request = "bbox"
    /\ pc = "frames"
    /\ frame_index < Len(frames)
    /\ LET frame == frames[frame_index + 1]
       IN  \/ \* an exception inside the try block: raised by tracker.update,
              \* or by a detector after tracker.update succeeded
              /\ frames_without_student' = frames_without_student + 1
              /\ success' \in IF tracker # "None" THEN {success, "True"}
                              ELSE {success}
              /\ UNCHANGED <<frame_results, frames_with_student, threshold_log>>
           \/ /\ tracker # "None"
              /\ \E update \in TrackerUpdates :
                    /\ success' = IF update.success THEN "True" ELSE "False"
                    /\ IF update.success
                       THEN LET region == CurrentBBox(update.bbox)
                                result == AnalyzeBBoxRegion(behavior_params, frame,
                                                            frame_index, region)
                            IN  /\ frames_with_student' = frames_with_student + 1
                                /\ frame_results' = AppendTracked(frame_results, result)
                                /\ threshold_log' =
                                       IF HeadPoseCalculated(frame, region)
                                       THEN threshold_log \cup
                                              {behavior_params.head_down_threshold}
                                       ELSE threshold_log
                                /\ UNCHANGED frames_without_student
                       ELSE /\ frames_without_student' = frames_without_student + 1
                            /\ UNCHANGED <<frame_results, frames_with_student,
                                           threshold_log>>
           \/ /\ tracker = "None"
              /\ LET region == SearchBBox(bbox)
                     result == AnalyzeBBoxRegion(behavior_params, frame,
                                                 frame_index, region)
                 IN  /\ IF result.student_found
                        THEN /\ frames_with_student' = frames_with_student + 1
                             /\ frame_results' = Append(frame_results, result)
                             /\ UNCHANGED frames_without_student
                        ELSE /\ frames_without_student' = frames_without_student + 1
                             /\ UNCHANGED <<frame_results, frames_with_student>>
                     /\ threshold_log' =
                            IF HeadPoseCalculated(frame, region)
                            THEN threshold_log \cup
                                   {behavior_params.head_down_threshold}
                            ELSE threshold_log
                     /\ UNCHANGED success
    /\ frame_index' = frame_index + 1
    /\ UNCHANGED <<behavior_params, status, n_updates, behavior_analyzer, request,
                   pc, frames, initial_bbox, analyzer_params, tracker, tracker_name,
                   bbox, summary, error>>
    /\ UNCHANGED videoVars
    /\ UNCHANGED callVars

\* The end of analyze_with_bbox: the summary and the returned dict.
ReturnBBox ==
    /\ request = "bbox"
    /\ pc = "frames"
    /\ frame_index = Len(frames)
    /\ summary' = SummarizeBBoxAnalysis(frame_results)
    /\ pc' = "returned"
    /\ UNCHANGED <<behavior_params, status, n_updates, behavior_analyzer, request,
                   frames, initial_bbox, analyzer_params, tracker, tracker_name,
                   bbox, success, frame_index, frame_results, frames_with_student,
                   frames_without_student, threshold_log, error>>
    /\ UNCHANGED videoVars
    /\ UNCHANGED callVars

-----------------------------------------------------------------------------
(* app.py, individual_behavior_service.py: POST /api/behavior-analyze-individual *)

\* One iteration of the for loop of analyze_individual_video.
IndividualFrameStep ==
    /\ request = "individual"
    /\ pc = "frames"
    /\ frame_index < Len(frames)
    /\ LET analysis == AnalyzeFrameForStudent(frames[frame_index + 1], frame_index)
       IN  \/ \* a detector raises: except Exception
              /\ frames_without_student' = frames_without_student + 1
              /\ UNCHANGED <<frame_results, frames_with_student>>
           \/ IF analysis.raises \/ ~analysis.result.student_found
              THEN /\ frames_without_student' = frames_without_student + 1
                   /\ UNCHANGED <<frame_results, frames_with_student>>
              ELSE /\ frames_with_student' = frames_with_student + 1
                   /\ frame_results' = Append(frame_results, analysis.result)
                   /\ UNCHANGED frames_without_student
    /\ frame_index' = frame_index + 1
    /\ UNCHANGED <<behavior_params, status, n_updates, behavior_analyzer, request,
                   pc, frames, initial_bbox, analyzer_params, tracker, tracker_name,
                   bbox, success, threshold_log, summary, error>>
    /\ UNCHANGED videoVars
    /\ UNCHANGED callVars

\* The end of analyze_individual_video: _summarize_individual_analysis is called
\* outside the try block of the loop.
ReturnIndividual ==
    /\ request = "individual"
    /\ pc = "frames"
    /\ frame_index = Len(frames)
    /\ IF SummaryKeyError(frame_results)
       THEN /\ pc' = "raised"
            /\ error' = "KeyError: head_pose"
            /\ UNCHANGED summary
       ELSE /\ pc' = "returned"
            /\ summary' = SummarizeIndividualAnalysis(frame_results)
            /\ UNCHANGED error
    /\ UNCHANGED <<behavior_params, status, n_updates, behavior_analyzer, request,
                   frames, initial_bbox, analyzer_params, tracker, tracker_name,
                   bbox, success, frame_index, frame_results, frames_with_student,
                   frames_without_student, threshold_log>>
    /\ UNCHANGED videoVars
    /\ UNCHANGED callVars

-----------------------------------------------------------------------------
(* Specification of the application *)

\* No call of the video service is running.
VideoIdle ==
    /\ call = "none"
    /\ cap = <<>>
    /\ target = [x |-> 0, y |-> 0, w |-> 0, h |-> 0]
    /\ batch_size = 1
    /\ b_i = 0
    /\ batch_frames = <<>>
    /\ batch_indices = <<>>
    /\ b_stats = ZeroStats
    /\ processed = {}
    /\ f_i = 0
    /\ f_stats = ZeroStats
    /\ c_bad = {}
    /\ c_frame_idx = 0
    /\ c_pc = "idle"
    /\ c_stats = ZeroStats
    /\ c_result = NoResult
    /\ latest_behaviors = NoLatest
    /\ processed_count = 0

InitApp ==
    /\ behavior_params = DefaultBehaviorParams
    /\ status = 0
    /\ n_updates = 0
    /\ behavior_analyzer = NoAnalyzer
    /\ request \in {"bbox", "individual"}
    /\ pc = "idle"
    /\ frames \in SeqsUpTo(Scenes, MaxFrames) \ {<<>>}
    /\ initial_bbox \in IF request = "bbox" THEN InitialBoxes
                        ELSE {[x |-> 0, y |-> 0, width |-> 0, height |-> 0]}
    /\ analyzer_params = DefaultBehaviorParams
    /\ tracker = "None"
    /\ tracker_name = ""
    /\ bbox = NoBBox
    /\ success = "None"
    /\ frame_index = 0
    /\ frame_results = <<>>
    /\ frames_with_student = 0
    /\ frames_without_student = 0
    /\ threshold_log = {}
    /\ summary = NoSummary
    /\ error = ""
    /\ VideoIdle
    /\ CallIdle

NextApp ==
    \/ HandleBehaviorParams
    \/ CreateAnalyzer
    \/ CreateTracker
    \/ ValidateBBox
    \/ InitTracker
    \/ BBoxFrameStep
    \/ ReturnBBox
    \/ IndividualFrameStep
    \/ ReturnIndividual

SpecApp == InitApp /\ [][NextApp]_vars


-----------------------------------------------------------------------------
(* Claims about the application *)

\* The RuntimeErrors that analyze_with_bbox raises before its frame loop.
SetupErrors == {"RuntimeError: no tracker", "RuntimeError: bbox too small",
                "RuntimeError: init failed"}

\* C2: when every tracker constructor of the ordered list has failed, the call
\* is in the fallback search (no tracker, frames being searched or the result
\* returned); the analysis is never aborted.
C2_NoConstructorMeansFallbackSearch ==
    (request = "bbox" /\ pc \notin {"idle", "create"} /\ tracker_name = "")
        => (tracker = "None" /\ pc \in {"frames", "returned"})

\* C3: when the initialisation of the tracker has returned failure, the call
\* goes on in the fallback search instead of ending with an error.
C3_InitFailureMeansFallbackSearch ==
    (request = "bbox" /\ pc \notin {"idle", "create", "validate", "init"}
        /\ frame_index = 0 /\ success = "False")
        => (tracker = "None" /\ pc = "frames")

\* C4: when the clamped initial box is smaller than 10x10 the call does not
\* raise, and it counts no frame as tracked.
C4_SmallClampedBoxIsNotAnError ==
    (request = "bbox" /\ pc \notin {"idle", "create", "validate"}
        /\ tracker_name # ""
        /\ (bbox.w < MinBoxSize \/ bbox.h < MinBoxSize))
        => (pc # "raised" /\ frames_with_student = 0)

\* C5: no exception leaves analyze_individual_video or analyze_with_bbox because
\* of what a frame contains: the only exceptions that leave a call are the
\* set-up errors of the tracker, and a call that has gone through all its
\* frames returns its frame results and summary.
C5_FramesNeverRaise ==
    pc = "raised" => (request = "bbox" /\ frame_index = 0 /\ error \in SetupErrors)

\* C7: a rejected update request leaves every field of behavior_params as it
\* was, and an accepted one replaces exactly the fields it provides.
C7_UpdateIsAllOrNothing ==
    [][n_updates' # n_updates =>
          /\ status' = 400 => behavior_params' = behavior_params
          /\ status' = 200 =>
                \E data \in UpdateRequests :
                    \A n \in ParamNames :
                        behavior_params'[n] = IF data[n].present THEN data[n].v
                                              ELSE behavior_params[n]]_vars

\* C8: all the frames of one analyze_with_bbox run are classified with one
\* head_down_threshold, whatever updates are handled during the run.
C8_OneSnapshotPerRun ==
    request = "bbox" => Cardinality(threshold_log) <= 1

\* The keypoints that _analyze_frame_for_student classifies on the frame.
ClassifiedKpts(frame) ==
    LET face == TargetFace(frame.faces, 1,
                           [max_similarity |-> -100, target_face |-> 0])
    IN  frame.poses[MatchPoseToBBox(frame.poses,
                                    frame.faces[face.target_face].bbox)].kpts

\* C9: every head pose and hand activity recorded by the face-matched analysis
\* is the classification of the frame's keypoints under the behavior_params
\* the analyzer was given.
C9_ClassifiedWithParamsInForce ==
    request = "individual" =>
        \A k \in 1..Len(frame_results) :
            LET r == frame_results[k]
                kpts == ClassifiedKpts(frames[r.frame_index + 1])
            IN  (r.pose_found /\ "head_pose" \in r.behavior.keys) =>
                    /\ r.behavior.head_pose = AnalyzeHeadPose(analyzer_params, kpts)
                    /\ r.behavior.hand_activity =
                           AnalyzeHandActivity(analyzer_params, kpts)

\* The frame results in which the pose of the subject was found.
PoseFound(results) == {k \in 1..Len(results) : results[k].pose_found}

\* C10: in the summaries of analyze_with_bbox and analyze_individual_video every
\* head-pose percentage is the number of frames with that head pose divided by
\* the number of frame results in which the pose was found.
C10_PercentagesOverPoseFoundFrames ==
    (pc = "returned" /\ ~summary.empty /\ PoseFound(frame_results) # {}) =>
        LET found == PoseFound(frame_results)
            count(l) == Cardinality({k \in found :
                                        frame_results[k].behavior.head_pose = l})
        IN  IF request = "bbox"
            THEN \A l \in DOMAIN summary.head_percentages :
                    summary.head_percentages[l] =
                        Percentage(count(l), Cardinality(found))
            ELSE \A l \in HeadPoseLabels :
                    summary.behavior_percentages[l] =
                        Percentage(count(l), Cardinality(found))


-----------------------------------------------------------------------------
(* behavior_service.py: the class-wide analysis of one frame and its summary *)

\* _analyze_desktop_objects_in_bbox of ClassroomBehaviorAnalyzer: the labels of
\* the {label, confidence} dicts it returns.
ClassDesktopObjectsInBBox(params, objects, person_bbox) ==
    LET accepted(o) ==
            /\ RatioLess(OneTenth, CalculateIou(person_bbox, o.bbox))
            /\ CocoLabel(o.class_id) \in {"book", "laptop", "cell phone", "keyboard"}
            /\ o.conf >= params.object_min_confidence
        kept == SelectSeq(objects, accepted)
    IN  [k \in 1..Len(kept) |-> CocoLabel(kept[k].class_id)]

\* _analyze_student_behaviors: one behavior per detected person whose
\* _analyze_single_person_pose is not empty, in detector order.
RECURSIVE AnalyzeStudentBehaviors(_, _, _)
AnalyzeStudentBehaviors(params, poses, objects) ==
    IF poses = <<>> THEN <<>>
    ELSE LET behavior == AnalyzeSinglePersonPose(params, Head(poses).kpts)
             rest == AnalyzeStudentBehaviors(params, Tail(poses), objects)
         IN  IF behavior.keys = {} THEN rest
             ELSE <<[behavior EXCEPT
                        !.keys = @ \cup {"bbox", "desktop_objects"},
                        !.desktop_objects =
                            ClassDesktopObjectsInBBox(params, objects,
                                                      Head(poses).bbox)]>> \o rest

\* analyze_frame of ClassroomBehaviorAnalyzer: the part of the frame result
\* that the summary reads.
AnalyzeFrame(params, frame) ==
    [behaviors |-> AnalyzeStudentBehaviors(params, frame.poses, frame.objects)]

\* All behaviors of all frame results, in order.
RECURSIVE AllBehaviors(_)
AllBehaviors(results) ==
    IF results = <<>> THEN <<>>
    ELSE Head(results).behaviors \o AllBehaviors(Tail(results))

\* _summarize_behavior_analysis
SummarizeBehaviorAnalysis(results) ==
    LET instances == AllBehaviors(results)
        total_student_instances == Len(instances)
        head_pose_stats == [l \in HeadPoseLabels |->
            Cardinality({k \in 1..Len(instances) : instances[k].head_pose = l})]
        hand_activity_stats == [l \in HandActivityLabels |->
            Cardinality({k \in 1..Len(instances) : instances[k].hand_activity = l})]
    IN  [empty |-> FALSE,
         total_frames |-> Len(results),
         behavior_percentages |->
             [l \in HeadPoseLabels \cup HandActivityLabels |->
                 IF total_student_instances > 0
                 THEN IF l \in HeadPoseLabels
                      THEN Percentage(head_pose_stats[l], total_student_instances)
                      ELSE Percentage(hand_activity_stats[l], total_student_instances)
                 ELSE 0]]

-----------------------------------------------------------------------------
(* One call of a function of the pipeline on arguments of a bounded set *)

\* MaxResults bounds len(frame_results) of a summary call.
MaxResults == 3

\* The tracked region of the calls: the box of the pose nearest to the camera.
TargetRegion == Box(100, 100, 180, 220)

\* The frame results that _analyze_bbox_region, _analyze_frame_for_student and
\* analyze_frame produce on the scenes.
BBoxResults ==
    {AnalyzeBBoxRegion(DefaultBehaviorParams, s, 1, TargetRegion) : s \in Scenes}

IndividualResults == {AnalyzeFrameForStudent(s, 1).result : s \in Scenes}

ClassResults == {AnalyzeFrame(DefaultBehaviorParams, s) : s \in Scenes}

SummaryOps == {"_summarize_bbox_analysis", "_summarize_individual_analysis",
               "_summarize_behavior_analysis"}

SummaryArgs(o) ==
    CASE o = "_summarize_bbox_analysis" -> SeqsUpTo(BBoxResults, MaxResults)
      [] o = "_summarize_individual_analysis" ->
             SeqsUpTo(IndividualResults, MaxResults)
      [] o = "_summarize_behavior_analysis" -> SeqsUpTo(ClassResults, MaxResults)

\* A summary call returns its dict or raises (KeyError).
Returned(v) == [raised |-> FALSE, value |-> v]

Raised == [raised |-> TRUE, value |-> <<>>]

CallSummarizeBBox ==
    /\ op = "_summarize_bbox_analysis" /\ ~done
    /\ out' = Returned(SummarizeBBoxAnalysis(arg))
    /\ done' = TRUE
    /\ UNCHANGED <<op, arg>>
    /\ UNCHANGED <<videoVars, appVars>>

CallSummarizeIndividual ==
    /\ op = "_summarize_individual_analysis" /\ ~done
    /\ out' = IF SummaryKeyError(arg) THEN Raised
              ELSE Returned(SummarizeIndividualAnalysis(arg))
    /\ done' = TRUE
    /\ UNCHANGED <<op, arg>>
    /\ UNCHANGED <<videoVars, appVars>>

CallSummarizeClass ==
    /\ op = "_summarize_behavior_analysis" /\ ~done
    /\ out' = Returned(SummarizeBehaviorAnalysis(arg))
    /\ done' = TRUE
    /\ UNCHANGED <<op, arg>>
    /\ UNCHANGED <<videoVars, appVars>>

\* analyze_video_individual after the analysis loop: behavior_percentages
\* (keyed by behavior, hundredths of a percent) and attention_score
\* (hundredths).  The weights 1.0, 0.85, 0.5, -1.0, 0.6 are taken in
\* hundredths, so the weighted sum is in units of 1/10000.
VideoIndividualResult(behavior_stats) ==
    LET sampled_count == behavior_stats.listening + behavior_stats.using_computer
                           + behavior_stats.using_phone
                           + behavior_stats.reading_writing + behavior_stats.neutral
        behavior_percentages ==
            [b \in BehaviorLabels |->
                IF sampled_count > 0
                THEN Percentage(behavior_stats[b], sampled_count) ELSE 0]
        score == 100 * behavior_percentages.listening
                   + 85 * behavior_percentages.reading_writing
                   + 50 * behavior_percentages.using_computer
                   - 100 * behavior_percentages.using_phone
                   + 60 * behavior_percentages.neutral
    IN  [sampled_frames |-> sampled_count,
         behavior_percentages |-> behavior_percentages,
         attention_score |-> RoundDiv(Max(0, Min(1000000, score)), 100)]

\* behavior_stats after the analysis loop: each count at most MaxResults.
BehaviorStatsArgs == [BehaviorLabels -> 0..MaxResults]

CallVideoIndividualResult ==
    /\ op = "analyze_video_individual" /\ ~done
    /\ out' = Returned(VideoIndividualResult(arg))
    /\ done' = TRUE
    /\ UNCHANGED <<op, arg>>
    /\ UNCHANGED <<videoVars, appVars>>

\* MaxPoses bounds the number of persons the pose detector returns on a frame.
MaxPoses == 3

\* Boxes of detected persons, by their overlap with TargetRegion (area 9600):
\* the region itself, its upper and its lower half (IoU 1/2 each), a box of
\* area 2880 inside it (IoU exactly 3/10), one of area 960 (IoU exactly 1/10),
\* one of area 400 (IoU 1/24) and one that does not touch it.
CandidateBoxes ==
    {Box(100, 100, 180, 220), Box(100, 100, 180, 160), Box(100, 160, 180, 220),
     Box(100, 100, 148, 160), Box(100, 100, 140, 124), Box(100, 100, 120, 120),
     Box(400, 100, 480, 220)}

CandidatePoses == {[bbox |-> b, kpts |-> KptsUp] : b \in CandidateBoxes}

AssociatorArgs ==
    {[poses |-> ps, region |-> TargetRegion] : ps \in SeqsUpTo(CandidatePoses, MaxPoses)}

\* target_pose of _analyze_bbox_region when it goes on to classify: the index
\* of the pose in detector order, 0 when it returns pose_found = False.
BBoxTargetPose(poses, region) ==
    LET match == BestPose(poses, region, 1,
                          [best_iou |-> Ratio(0, 1), target_pose |-> 0])
    IN  IF match.target_pose = 0 \/ RatioLess(match.best_iou, OneTenth)
        THEN 0 ELSE match.target_pose

CallAnalyzeBBoxRegion ==
    /\ op = "_analyze_bbox_region" /\ ~done
    /\ out' = [result |-> AnalyzeBBoxRegion(DefaultBehaviorParams,
                                            Scene(<<>>, arg.poses, <<>>), 1,
                                            arg.region),
               target_pose |-> BBoxTargetPose(arg.poses, arg.region)]
    /\ done' = TRUE
    /\ UNCHANGED <<op, arg>>
    /\ UNCHANGED <<videoVars, appVars>>

CallMatchPoseToBBox ==
    /\ op = "_match_pose_to_bbox" /\ ~done
    /\ out' = [best_match |-> MatchPoseToBBox(arg.poses, arg.region)]
    /\ done' = TRUE
    /\ UNCHANGED <<op, arg>>
    /\ UNCHANGED <<videoVars, appVars>>

AssociatorOps == {"_analyze_bbox_region", "_match_pose_to_bbox"}

\* MaxObjects bounds the number of boxes the object detector returns on a frame.
MaxObjects == 2

\* Detected objects: a laptop on the subject's desk (IoU 4/13 with
\* TargetRegion), a book whose box has IoU exactly 1/10 with it, a phone and
\* a laptop in another part of the frame.
BookAtTenth == [bbox |-> Box(100, 100, 140, 124), class_id |-> 73, conf |-> 80]

PhoneElsewhere == [bbox |-> Box(400, 300, 440, 340), class_id |-> 67, conf |-> 80]

LaptopElsewhere == [bbox |-> Box(400, 200, 480, 260), class_id |-> 63, conf |-> 80]

CandidateObjects ==
    {[LaptopOnDesk EXCEPT !.conf = 80], BookAtTenth, PhoneElsewhere, LaptopElsewhere}

\* Frames with the subject at TargetRegion, possibly another person elsewhere.
ObjectScenes ==
    {Scene(<<FaceOfTarget>>, ps, os) :
        ps \in {<<PoseNear(KptsUp)>>, <<PoseFar(KptsUp), PoseNear(KptsUp)>>},
        os \in SeqsUpTo(CandidateObjects, MaxObjects)}

CallAnalyzeDesktopObjectsInBBox ==
    /\ op = "_analyze_desktop_objects_in_bbox" /\ ~done
    /\ out' = [desktop_objects |->
                  AnalyzeDesktopObjectsInBBox(arg.objects, TargetRegion)]
    /\ done' = TRUE
    /\ UNCHANGED <<op, arg>>
    /\ UNCHANGED <<videoVars, appVars>>

CallAnalyzeStudentBehaviors ==
    /\ op = "_analyze_student_behaviors" /\ ~done
    /\ out' = [behaviors |->
                  AnalyzeStudentBehaviors(DefaultBehaviorParams, arg.poses,
                                          arg.objects)]
    /\ done' = TRUE
    /\ UNCHANGED <<op, arg>>
    /\ UNCHANGED <<videoVars, appVars>>

CallAnalyzeFrameForStudent ==
    /\ op = "_analyze_frame_for_student" /\ ~done
    /\ out' = AnalyzeFrameForStudent(arg, 1)
    /\ done' = TRUE
    /\ UNCHANGED <<op, arg>>
    /\ UNCHANGED <<videoVars, appVars>>

ObjectOps == {"_analyze_desktop_objects_in_bbox", "_analyze_student_behaviors",
              "_analyze_frame_for_student"}

\* The person of the pose2 calls: box {100, 100, 200, 300} (width 100, so the
\* widened range is 70 < x < 230), nose at y = 150.
PersonBBox == Box(100, 100, 200, 300)

NoseY10 == 1500

\* Object centres on, next to and between the two x bounds, and above, at and
\* below the nose.
NearbyCandidates ==
    {[class_name |-> "laptop", cx10 |-> cx, cy10 |-> cy] :
        cx \in {695, 700, 705, 1500, 2295, 2300, 2305},
        cy \in {1495, 1500, 1505}}

NearbyArgs ==
    {[objects |-> os, person_bbox |-> PersonBBox, nose_visible |-> v,
      nose_y10 |-> NoseY10] :
        os \in SeqsUpTo(NearbyCandidates, MaxObjects), v \in BOOLEAN}

CallFindNearbyObjects ==
    /\ op = "_find_nearby_objects" /\ ~done
    /\ out' = [nearby |-> FindNearbyObjects(arg.objects, arg.person_bbox,
                                            arg.nose_visible, arg.nose_y10)]
    /\ done' = TRUE
    /\ UNCHANGED <<op, arg>>
    /\ UNCHANGED <<videoVars, appVars>>

\* Persons with each head pose, and objects in front of the person or
\* elsewhere in the frame.
BehaviorPersons ==
    {[head_pose |-> h, bbox |-> PersonBBox, nose_visible |-> v,
      nose_y10 |-> NoseY10] :
        h \in {"looking_up", "looking_down", "neutral", "unknown"},
        v \in BOOLEAN}

BehaviorObjects ==
    {[class_name |-> c, cx10 |-> cx, cy10 |-> 2500] :
        c \in {"laptop", "cell phone", "book"}, cx \in {1500, 4000}}

BehaviorArgs ==
    {[person |-> p, objects |-> os] :
        p \in BehaviorPersons, os \in SeqsUpTo(BehaviorObjects, MaxObjects)}

CallAnalyzeBehaviors ==
    /\ op = "_analyze_behaviors" /\ ~done
    /\ out' = [behavior |-> AnalyzeBehavior(arg.person, arg.objects)]
    /\ done' = TRUE
    /\ UNCHANGED <<op, arg>>
    /\ UNCHANGED <<videoVars, appVars>>

\* _analyze_head_pose_ear_eye.  A keypoint is [x, y, visible]; the ear's signed
\* offset relative_position = line_y - ear_y, with line_y = k * ear_x + b the
\* eye line at the ear's x, is compared after multiplying both sides by
\* x2 - x1.  With coincident eyes: vertical_diff = ear_y - (y1 + y2) / 2,
\* doubled, against the literals 15 and -5.
AnalyzeHeadPoseEarEye(keypoints, looking_up_threshold, looking_down_threshold) ==
    IF ~(keypoints.left_eye.visible /\ keypoints.right_eye.visible
           /\ (keypoints.left_ear.visible \/ keypoints.right_ear.visible))
    THEN "unknown"
    ELSE
    LET ear == IF keypoints.left_ear.visible THEN keypoints.left_ear
               ELSE keypoints.right_ear
        x1 == keypoints.left_eye.x
        y1 == keypoints.left_eye.y
        x2 == keypoints.right_eye.x
        y2 == keypoints.right_eye.y
    IN  IF x2 = x1
        THEN LET vertical_diff2 == 2 * ear.y - (y1 + y2)
             IN  IF vertical_diff2 > 2 * 15 THEN "looking_up"
                 ELSE IF vertical_diff2 < 2 * (-5) THEN "looking_down"
                 ELSE "neutral"
        ELSE LET dx == x2 - x1
                 sign == IF dx > 0 THEN 1 ELSE -1
                 \* relative_position * dx
                 scaled == (y2 - y1) * (ear.x - x1) + (y1 - ear.y) * dx
             IN  IF sign * scaled < sign * looking_up_threshold * dx
                 THEN "looking_up"
                 ELSE IF sign * scaled > sign * looking_down_threshold * dx
                 THEN "looking_down"
                 ELSE "neutral"

\* Head keypoints: the left eye at (100, 50); the right eye level with it,
\* 8 px lower (slope 1/4), or at the same x; the left ear at x = 116 above,
\* near and below the eye line; each keypoint visible or not.
Point(x, y, visible) == [x |-> x, y |-> y, visible |-> visible]

EarEyeKpts ==
    {[left_eye |-> le, right_eye |-> re, left_ear |-> la, right_ear |-> ra] :
        le \in {Point(100, 50, TRUE), Point(100, 50, FALSE)},
        re \in {Point(132, 50, TRUE), Point(132, 58, TRUE), Point(100, 50, TRUE),
                Point(132, 50, FALSE)},
        la \in {Point(116, 30, TRUE), Point(116, 49, TRUE), Point(116, 51, TRUE),
                Point(116, 60, TRUE), Point(116, 70, TRUE), Point(116, 40, FALSE)},
        ra \in {Point(116, 60, TRUE), Point(116, 60, FALSE)}}

\* (looking_up_threshold, looking_down_threshold) of the caller
EarEyeThresholds == {<<0, 2>>, <<-2, 0>>}

EarEyeArgs ==
    {[keypoints |-> ks, looking_up_threshold |-> t[1],
      looking_down_threshold |-> t[2]] :
        ks \in EarEyeKpts, t \in EarEyeThresholds}

CallAnalyzeHeadPoseEarEye ==
    /\ op = "_analyze_head_pose_ear_eye" /\ ~done
    /\ out' = [head_pose |->
                  AnalyzeHeadPoseEarEye(arg.keypoints, arg.looking_up_threshold,
                                        arg.looking_down_threshold)]
    /\ done' = TRUE
    /\ UNCHANGED <<op, arg>>
    /\ UNCHANGED <<videoVars, appVars>>

\* behavior_params of the classifier calls: the defaults and one update.
ClassifierParams ==
    {DefaultBehaviorParams,
     [DefaultBehaviorParams EXCEPT !.head_up_threshold = -10,
                                   !.head_down_threshold = 3,
                                   !.writing_threshold = 120]}

\* Keypoints of one person: the nose above, level with and below the
\* shoulder line at y = 90, the eyes well above or just above the nose, and
\* each of the right shoulder and the wrists either detected or not (an
\* undetected keypoint has confidence 0.1 and coordinates (0, 0)).
ClassifierKpts ==
    {[nose |-> n, left_eye |-> Kpt(e, 90), right_eye |-> Kpt(e, 90),
      left_shoulder |-> Kpt(90, 90), right_shoulder |-> rs,
      left_wrist |-> lw, right_wrist |-> rw] :
        n \in {Kpt(85, 90), Kpt(95, 90), Kpt(100, 90), Kpt(0, 10)}, e \in {80, 95},
        rs \in {Kpt(90, 90), Kpt(0, 10)},
        lw \in {Kpt(200, 90), Kpt(0, 10)},
        rw \in {Kpt(200, 90), Kpt(60, 90), Kpt(0, 10)}}

ClassifierArgs ==
    {[params |-> ps, kpts |-> ks] : ps \in ClassifierParams, ks \in ClassifierKpts}

CallBBoxSinglePersonPose ==
    /\ op = "BBoxTrackerAnalyzer._analyze_single_person_pose" /\ ~done
    /\ out' = BBoxSinglePersonPose(arg.params, arg.kpts)
    /\ done' = TRUE
    /\ UNCHANGED <<op, arg>>
    /\ UNCHANGED <<videoVars, appVars>>

CallAnalyzeSinglePersonPose ==
    /\ op = "ClassroomBehaviorAnalyzer._analyze_single_person_pose" /\ ~done
    /\ out' = AnalyzeSinglePersonPose(arg.params, arg.kpts)
    /\ done' = TRUE
    /\ UNCHANGED <<op, arg>>
    /\ UNCHANGED <<videoVars, appVars>>

ClassifierOps == {"BBoxTrackerAnalyzer._analyze_single_person_pose",
                  "ClassroomBehaviorAnalyzer._analyze_single_person_pose"}

\* Boxes (x, y, w, h) inside, across and outside the borders of the frame.
BoxGrid ==
    {[x |-> x, y |-> y, w |-> w, h |-> h] :
        x \in {-20, 0, 600, 639, 700}, y \in {-20, 0, 400},
        w \in {5, 40, 100}, h \in {40, 100}}

\* The boxes that pass the validation of analyze_with_bbox.
ValidatedBoxes ==
    {c \in {ClampBBox(b) : b \in BoxGrid} : c.w >= MinBoxSize /\ c.h >= MinBoxSize}

ClampOps == {"analyze_with_bbox: clamp", "analyze_with_bbox: search_bbox"}

\* The clamp of the initial box, as the corners of the clipped box.
CallClampBBox ==
    /\ op = "analyze_with_bbox: clamp" /\ ~done
    /\ out' = CurrentBBox(ClampBBox(arg))
    /\ done' = TRUE
    /\ UNCHANGED <<op, arg>>
    /\ UNCHANGED <<videoVars, appVars>>

CallSearchBBox ==
    /\ op = "analyze_with_bbox: search_bbox" /\ ~done
    /\ out' = SearchBBox(arg)
    /\ done' = TRUE
    /\ UNCHANGED <<op, arg>>
    /\ UNCHANGED <<videoVars, appVars>>

\* calculate_iou of app.py, on (x1, y1, x2, y2) sequences.
AppCalculateIou(bbox1, bbox2) ==
    LET x1_inter == Max(bbox1.x1, bbox2.x1)
        y1_inter == Max(bbox1.y1, bbox2.y1)
        x2_inter == Min(bbox1.x2, bbox2.x2)
        y2_inter == Min(bbox1.y2, bbox2.y2)
        inter_width == Max(0, x2_inter - x1_inter)
        inter_height == Max(0, y2_inter - y1_inter)
        inter_area == inter_width * inter_height
        area1 == (bbox1.x2 - bbox1.x1) * (bbox1.y2 - bbox1.y1)
        area2 == (bbox2.x2 - bbox2.x1) * (bbox2.y2 - bbox2.y1)
        union_area == area1 + area2 - inter_area
    IN  IF union_area = 0 THEN Ratio(0, 1) ELSE Ratio(inter_area, union_area)

\* Integer boxes with x1 <= x2 and y1 <= y2: a box, one overlapping it, one
\* inside it, one touching its right side, one diagonally apart, and boxes
\* of zero area (a vertical line inside the first box, a point apart).
IouBoxes ==
    {Box(0, 0, 10, 10), Box(5, 5, 15, 15), Box(2, 2, 6, 6), Box(10, 0, 20, 10),
     Box(20, 20, 30, 30), Box(4, 0, 4, 10), Box(40, 40, 40, 40)}

IouArgs == {[a |-> a, b |-> b] : a \in IouBoxes, b \in IouBoxes}

IouOps == {"BBoxTrackerAnalyzer._calculate_iou",
           "IndividualBehaviorAnalyzer._calculate_iou", "calculate_iou"}

\* The IoU implementation of an op, applied to two boxes.
IouOf(o, a, b) ==
    CASE o = "BBoxTrackerAnalyzer._calculate_iou" -> CalculateIou(a, b)
      [] o = "IndividualBehaviorAnalyzer._calculate_iou" -> CalculateIouArrays(a, b)
      [] o = "calculate_iou" -> AppCalculateIou(a, b)

CallCalculateIou ==
    /\ op \in IouOps /\ ~done
    /\ out' = IouOf(op, arg.a, arg.b)
    /\ done' = TRUE
    /\ UNCHANGED <<op, arg>>
    /\ UNCHANGED <<videoVars, appVars>>

FrameResultOps == {"frame result of _analyze_bbox_region",
                   "frame result of _analyze_frame_for_student"}

\* A frame and its index: 0 is a frame whose annotation is drawn.
FrameResultArgs == {[scene |-> sc, frame_index |-> i] : sc \in Scenes, i \in {0, 1}}

\* The frame result of either pipeline; _analyze_bbox_region reads only keys
\* that its own _analyze_single_person_pose always sets.
CallFrameResult ==
    /\ op \in FrameResultOps /\ ~done
    /\ out' = IF op = "frame result of _analyze_bbox_region"
              THEN [raises |-> FALSE,
                    result |-> AnalyzeBBoxRegion(DefaultBehaviorParams, arg.scene,
                                                 arg.frame_index, TargetRegion)]
              ELSE AnalyzeFrameForStudent(arg.scene, arg.frame_index)
    /\ done' = TRUE
    /\ UNCHANGED <<op, arg>>
    /\ UNCHANGED <<videoVars, appVars>>

\* The default (looking_up_threshold, looking_down_threshold) of the public
\* entry points from which _analyze_head_pose_ear_eye is reached.
EntryPointDefaults ==
    [detect_poses |-> <<-2, 0>>,
     analyze_image_base64 |-> <<-2, 0>>,
     analyze_behavior_base64 |-> <<-2, 0>>,
     analyze_behavior_frame |-> <<-2, 0>>,
     analyze_video_class |-> <<0, -2>>,
     analyze_video_individual |-> <<0, -2>>]

EntryPointArgs ==
    {[entry_point |-> e, keypoints |-> ks] :
        e \in DOMAIN EntryPointDefaults, ks \in EarEyeKpts}

\* An entry point called without thresholds: they are passed down unchanged
\* to _analyze_head_pose_ear_eye for every detected person.
CallEntryPointWithDefaults ==
    /\ op = "entry point with default thresholds" /\ ~done
    /\ LET t == EntryPointDefaults[arg.entry_point]
       IN  out' = [looking_up_threshold |-> t[1],
                   looking_down_threshold |-> t[2],
                   head_pose |-> AnalyzeHeadPoseEarEye(arg.keypoints, t[1], t[2])]
    /\ done' = TRUE
    /\ UNCHANGED <<op, arg>>
    /\ UNCHANGED <<videoVars, appVars>>

\* sorted(faces, key=lambda x: x.det_score, reverse=True): stable, so faces
\* of equal score keep their order.  InsertByScore puts face after every face
\* of the sorted list whose score is >= its own.
RECURSIVE InsertByScore(_, _)
InsertByScore(sorted, face) ==
    IF sorted = <<>> THEN <<face>>
    ELSE IF Head(sorted).det_score >= face.det_score
         THEN <<Head(sorted)>> \o InsertByScore(Tail(sorted), face)
         ELSE <<face>> \o sorted

RECURSIVE SortedByScore(_)
SortedByScore(faces) ==
    IF faces = <<>> THEN <<>>
    ELSE InsertByScore(SortedByScore(SubSeq(faces, 1, Len(faces) - 1)),
                       faces[Len(faces)])

\* list.remove(x): the list without its first element equal to x
RECURSIVE Remove(_, _)
Remove(list, x) ==
    IF list = <<>> THEN <<>>
    ELSE IF Head(list) = x THEN Tail(list)
    ELSE <<Head(list)>> \o Remove(Tail(list), x)

\* The index of the first selected face whose IoU with face exceeds 0.3, or
\* 0: the inner loop of smart_deduplication up to its break.
FirstOverlap(selected, face) ==
    LET hits == {k \in 1..Len(selected) :
                    RatioLess(Ratio(3, 10),
                              AppCalculateIou(face.bbox, selected[k].bbox))}
    IN  IF hits = {} THEN 0 ELSE CHOOSE k \in hits : \A j \in hits : k <= j

\* The outer loop of smart_deduplication over sorted_faces, from face k on.
RECURSIVE Deduplicate(_, _, _)
Deduplicate(sorted_faces, k, deduplicated_faces) ==
    IF k > Len(sorted_faces) THEN deduplicated_faces
    ELSE LET face == sorted_faces[k]
             hit == FirstOverlap(deduplicated_faces, face)
         IN  Deduplicate(sorted_faces, k + 1,
                 IF hit = 0 THEN Append(deduplicated_faces, face)
                 ELSE IF face.det_score < deduplicated_faces[hit].det_score
                      THEN deduplicated_faces
                      ELSE Append(Remove(deduplicated_faces,
                                         deduplicated_faces[hit]), face))

\* smart_deduplication
SmartDeduplication(faces) ==
    IF Len(faces) <= 1 THEN faces
    ELSE Deduplicate(SortedByScore(faces), 1, <<>>)

\* MaxFaces bounds the number of faces the detector returns on an image.
MaxFaces == 3

\* Detected faces: two boxes side by side that touch (IoU 0), one across
\* both (IoU 1/3 with each) and one apart, with score 0.80 or 0.90.
DetectedFaces ==
    {[bbox |-> b, det_score |-> sc] :
        b \in {Box(0, 0, 10, 10), Box(10, 0, 20, 10), Box(5, 0, 15, 10),
               Box(40, 40, 50, 50)},
        sc \in {80, 90}}

\* Lists of detections with pairwise different boxes.
FaceLists ==
    {fs \in SeqsUpTo(DetectedFaces, MaxFaces) :
        \A i, j \in 1..Len(fs) : i # j => fs[i].bbox # fs[j].bbox}

CallSmartDeduplication ==
    /\ op = "smart_deduplication" /\ ~done
    /\ out' = SmartDeduplication(arg)
    /\ done' = TRUE
    /\ UNCHANGED <<op, arg>>
    /\ UNCHANGED <<videoVars, appVars>>

CallOps == SummaryOps \cup {"analyze_video_individual"} \cup AssociatorOps
             \cup ObjectOps \cup {"_find_nearby_objects", "_analyze_behaviors"}
             \cup ClassifierOps \cup {"_analyze_head_pose_ear_eye"}
             \cup ClampOps \cup IouOps \cup FrameResultOps
             \cup {"entry point with default thresholds", "smart_deduplication"}

CallArgs(o) ==
    CASE o \in SummaryOps -> SummaryArgs(o)
      [] o = "analyze_video_individual" -> BehaviorStatsArgs
      [] o \in AssociatorOps -> AssociatorArgs
      [] o \in ObjectOps -> ObjectScenes
      [] o = "_find_nearby_objects" -> NearbyArgs
      [] o = "_analyze_behaviors" -> BehaviorArgs
      [] o \in ClassifierOps -> ClassifierArgs
      [] o = "_analyze_head_pose_ear_eye" -> EarEyeArgs
      [] o = "analyze_with_bbox: clamp" -> BoxGrid
      [] o = "analyze_with_bbox: search_bbox" -> ValidatedBoxes
      [] o \in IouOps -> IouArgs
      [] o \in FrameResultOps -> FrameResultArgs
      [] o = "entry point with default thresholds" -> EntryPointArgs
      [] o = "smart_deduplication" -> FaceLists

InitCall ==
    /\ op \in CallOps
    /\ arg \in CallArgs(op)
    /\ out = <<>>
    /\ done = FALSE
    /\ VideoIdle
    /\ AppIdle

NextCall ==
    \/ CallSummarizeBBox
    \/ CallSummarizeIndividual
    \/ CallSummarizeClass
    \/ CallVideoIndividualResult
    \/ CallAnalyzeBBoxRegion
    \/ CallMatchPoseToBBox
    \/ CallAnalyzeDesktopObjectsInBBox
    \/ CallAnalyzeStudentBehaviors
    \/ CallAnalyzeFrameForStudent
    \/ CallFindNearbyObjects
    \/ CallAnalyzeBehaviors
    \/ CallBBoxSinglePersonPose
    \/ CallAnalyzeSinglePersonPose
    \/ CallAnalyzeHeadPoseEarEye
    \/ CallClampBBox
    \/ CallSearchBBox
    \/ CallCalculateIou
    \/ CallFrameResult
    \/ CallEntryPointWithDefaults
    \/ CallSmartDeduplication

SpecCall == InitCall /\ [][NextCall]_vars

-----------------------------------------------------------------------------
(* Claims about the summaries *)

\* The head-pose percentages that a returned summary reports: head_percentages
\* of the bbox summary, the head-pose keys of behavior_percentages elsewhere.
HeadPosePercentages ==
    LET p == IF op = "_summarize_bbox_analysis"
             THEN out.value.head_percentages
             ELSE out.value.behavior_percentages
    IN  [l \in HeadPoseLabels |-> Get(p, l, 0)]

\* Every analyzed frame has a subject with a pose / no frame has one.
EveryFrameFound ==
    /\ arg # <<>>
    /\ IF op = "_summarize_behavior_analysis"
       THEN \A k \in 1..Len(arg) : arg[k].behaviors # <<>>
       ELSE \A k \in 1..Len(arg) : arg[k].pose_found

NoFrameFound ==
    IF op = "_summarize_behavior_analysis"
    THEN \A k \in 1..Len(arg) : arg[k].behaviors = <<>>
    ELSE \A k \in 1..Len(arg) : ~arg[k].pose_found

\* C11: for every sequence of frame results, the head-pose percentages over
\* {looking_up, looking_down, neutral} that the aggregator produces sum to 100
\* (within the rounding of three terms) when every analyzed frame has
\* pose_found = true, and every category is 0 when no frame found a subject.
C11_HeadPosePercentagesSumTo100 ==
    (done /\ op \in SummaryOps) =>
        /\ EveryFrameFound =>
              /\ ~out.raised
              /\ HeadPosePercentages["looking_up"]
                   + HeadPosePercentages["looking_down"]
                   + HeadPosePercentages["neutral"] \in 9998..10002
        /\ NoFrameFound =>
              /\ ~out.raised
              /\ \A l \in HeadPoseLabels : HeadPosePercentages[l] = 0


\* The summaries that carry an attention score: the class-wide summary has
\* none, and the individual summary of no frame results has none either.
HasAttentionScore ==
    /\ done
    /\ op \in {"_summarize_bbox_analysis", "_summarize_individual_analysis",
               "analyze_video_individual"}
    /\ ~out.raised
    /\ ~(op = "_summarize_individual_analysis" /\ out.value.empty)

\* C12: the attention score of every summary (bbox-tracked, face-matched
\* individual, long-video individual) lies within [0, 100], whatever the
\* percentages, the 100% / 0% extremes included.
C12_AttentionScoreInRange ==
    HasAttentionScore =>
        /\ out.value.attention_score >= 0
        /\ out.value.attention_score <= 10000

\* C12 witness: a bbox summary of frames that are all using_phone and never
\* looking_up, where the weighted sum is negative and the score is 0.
C12_ClampedAtZero ==
    /\ HasAttentionScore
    /\ op = "_summarize_bbox_analysis"
    /\ Get(out.value.behavior_percentages, "using_phone", 0) = 10000
    /\ Get(out.value.behavior_percentages, "looking_up", 0) = 0
    /\ out.value.attention_score = 0


-----------------------------------------------------------------------------
(* Claims about the person associator *)

\* The overlap of detection k with the target region, as the called function
\* computes it.
Overlap(k) ==
    IF op = "_analyze_bbox_region"
    THEN CalculateIou(arg.region, arg.poses[k].bbox)
    ELSE CalculateIouArrays(arg.region, arg.poses[k].bbox)

\* The match threshold of the called function: 0.1 or 0.3.
MatchThreshold == IF op = "_analyze_bbox_region" THEN OneTenth ELSE Ratio(3, 10)

\* The index of the accepted detection, 0 when the call returns not found.
Chosen == IF op = "_analyze_bbox_region" THEN out.target_pose ELSE out.best_match

\* C13: the associator accepts a pose only if its IoU strictly exceeds the
\* match threshold (0.1 in the bbox region search, 0.3 in face-to-pose
\* matching); when no detection exceeds it, one at exactly the threshold
\* included, the call returns not found.
C13_AcceptsOnlyAboveThreshold ==
    (done /\ op \in AssociatorOps) =>
        /\ op = "_analyze_bbox_region" => (out.result.pose_found <=> Chosen # 0)
        /\ Chosen # 0 => RatioLess(MatchThreshold, Overlap(Chosen))
        /\ (\A k \in 1..Len(arg.poses) : ~RatioLess(MatchThreshold, Overlap(k)))
              => Chosen = 0

\* C14: the chosen pose has the maximum IoU against the target region over
\* all detections of the frame, and is the first in detector order among the
\* detections with that IoU.
C14_ChosenIsFirstMaximum ==
    (done /\ op \in AssociatorOps /\ Chosen # 0) =>
        /\ \A k \in 1..Len(arg.poses) : ~RatioLess(Overlap(Chosen), Overlap(k))
        /\ \A k \in 1..(Chosen - 1) : RatioLess(Overlap(k), Overlap(Chosen))

\* C14 witness: the bbox region search on three detections, the second and
\* the third with the same, maximal IoU; the second is chosen.
C14_TieFirstWins ==
    /\ done /\ op = "_analyze_bbox_region"
    /\ Len(arg.poses) = 3
    /\ RatioLess(Overlap(1), Overlap(2))
    /\ Overlap(2) = Overlap(3)
    /\ arg.poses[2].bbox # arg.poses[3].bbox
    /\ Chosen = 2


-----------------------------------------------------------------------------
(* Claims about the objects attached to a subject *)

\* The labels of the detected objects whose box has IoU > 0.1 with person_bbox,
\* under the naming of the called function.
OverlappingLabels(person_bbox) ==
    {IF op = "_analyze_desktop_objects_in_bbox"
     THEN DesktopObjectName(arg.objects[k].class_id)
     ELSE CocoLabel(arg.objects[k].class_id) :
        k \in {j \in 1..Len(arg.objects) :
                  RatioLess(OneTenth,
                            CalculateIou(person_bbox, arg.objects[j].bbox))}}

AttachedOnlyFrom(desktop_objects, person_bbox) ==
    \A k \in 1..Len(desktop_objects) :
        desktop_objects[k] \in OverlappingLabels(person_bbox)

\* C15: in every pipeline that targets a subject (class-wide per person,
\* bbox-tracked, face-matched individual) a desktop object is attached to the
\* subject's behavior only if iou(person_bbox, object_bbox) > 0.1; objects
\* elsewhere in the frame are never attributed to the subject.
C15_ObjectsAttachedByOverlap ==
    (done /\ op \in ObjectOps) =>
        CASE op = "_analyze_desktop_objects_in_bbox" ->
                 AttachedOnlyFrom(out.desktop_objects, TargetRegion)
          [] op = "_analyze_student_behaviors" ->
                 /\ Len(out.behaviors) = Len(arg.poses)
                 /\ \A k \in 1..Len(out.behaviors) :
                        AttachedOnlyFrom(out.behaviors[k].desktop_objects,
                                         arg.poses[k].bbox)
          [] op = "_analyze_frame_for_student" ->
                 out.result.pose_found =>
                     AttachedOnlyFrom(out.result.behavior.desktop_objects,
                                      TargetRegion)


-----------------------------------------------------------------------------
(* Claims about the in-front-of policy and the composite behavior label *)

\* The object's centre is below the nose and strictly between
\* x1 - 0.3 * width and x2 + 0.3 * width, in tenths of a pixel.
InFront(o) ==
    LET width == arg.person_bbox.x2 - arg.person_bbox.x1
    IN  /\ arg.nose_visible
        /\ o.cy10 > arg.nose_y10
        /\ o.cx10 > 10 * arg.person_bbox.x1 - 3 * width
        /\ o.cx10 < 10 * arg.person_bbox.x2 + 3 * width

\* C16: _find_nearby_objects accepts an object if and only if its centre y is
\* greater than the nose y and its centre x lies strictly between
\* x1 - 0.3 * width and x2 + 0.3 * width of the person's box; when the nose
\* is not visible no object is accepted.
C16_InFrontOfPolicy ==
    (done /\ op = "_find_nearby_objects") =>
        /\ out.nearby = SelectSeq(arg.objects, InFront)
        /\ ~arg.nose_visible => out.nearby = <<>>

\* C16 witness: with the nose visible, an object below the nose whose centre x
\* is exactly x1 - 0.3 * width is rejected and one half a pixel inside is
\* accepted.
C16_BoundaryRejected ==
    /\ done /\ op = "_find_nearby_objects"
    /\ arg.nose_visible
    /\ Len(arg.objects) = 2
    /\ arg.objects[1].cx10 = 700 /\ arg.objects[1].cy10 = 1505
    /\ arg.objects[2].cx10 = 705 /\ arg.objects[2].cy10 = 1505
    /\ out.nearby = <<arg.objects[2]>>

\* The objects associated with the person of an _analyze_behaviors call.
Associated ==
    FindNearbyObjects(arg.objects, arg.person.bbox, arg.person.nose_visible,
                      arg.person.nose_y10)

-----------------------------------------------------------------------------
(* Claims about the threshold classifiers *)

\* The call ran the head-pose classifier / the hand classifier of its class.
HeadClassified ==
    /\ done /\ op \in ClassifierOps
    /\ IF op = "BBoxTrackerAnalyzer._analyze_single_person_pose"
       THEN HeadVisible(arg.kpts)
       ELSE "head_pose" \in out.keys

HandClassified ==
    /\ done /\ op \in ClassifierOps
    /\ IF op = "BBoxTrackerAnalyzer._analyze_single_person_pose"
       THEN HandsVisible(arg.kpts)
       ELSE "hand_activity" \in out.keys
              /\ (Kept(arg.kpts.left_wrist) \/ Kept(arg.kpts.right_wrist))

\* Twice vertical_diff = nose.y - mean of the two shoulder y values.
VerticalDiff2 ==
    2 * arg.kpts.nose.y - (arg.kpts.left_shoulder.y + arg.kpts.right_shoulder.y)

\* C18: in the class-wide and the bbox-tracked classifier the head pose is
\* looking_up when vertical_diff < head_up_threshold, otherwise looking_down
\* when vertical_diff > head_down_threshold, otherwise neutral, where
\* vertical_diff is nose.y minus the mean of the two shoulder y values (nose
\* at 100, shoulders at 90, thresholds 2 and 8: looking_down).
C18_HeadPoseFromShoulderLine ==
    HeadClassified =>
        out.head_pose =
            IF VerticalDiff2 < 2 * arg.params.head_up_threshold THEN "looking_up"
            ELSE IF VerticalDiff2 > 2 * arg.params.head_down_threshold
                 THEN "looking_down"
            ELSE "neutral"

\* The keypoints of the call that its class takes as visible.
VisibleIn(kpt) ==
    IF op = "BBoxTrackerAnalyzer._analyze_single_person_pose"
    THEN IsVisible(kpt) ELSE Kept(kpt)

SumVisibleY(kpts) ==
    (IF VisibleIn(kpts[1]) THEN kpts[1].y ELSE 0)
      + (IF VisibleIn(kpts[2]) THEN kpts[2].y ELSE 0)

CountVisible(kpts) ==
    (IF VisibleIn(kpts[1]) THEN 1 ELSE 0) + (IF VisibleIn(kpts[2]) THEN 1 ELSE 0)

\* The label from visible keypoints only.  Shoulder-relative scheme:
\* mean(visible wrist y) - mean(visible shoulder y) against the thresholds,
\* every term multiplied by the two counts.  Nose-relative scheme: the visible
\* wrist's y (the left one when both are visible) minus nose.y.
HandLabelFromVisible ==
    IF op = "BBoxTrackerAnalyzer._analyze_single_person_pose"
    THEN LET wrists == <<arg.kpts.left_wrist, arg.kpts.right_wrist>>
             shoulders == <<arg.kpts.left_shoulder, arg.kpts.right_shoulder>>
             nw == CountVisible(wrists)
             ns == CountVisible(shoulders)
             diff == SumVisibleY(wrists) * ns - SumVisibleY(shoulders) * nw
         IN  IF diff > arg.params.writing_threshold * nw * ns THEN "writing"
             ELSE IF diff < arg.params.phone_threshold * nw * ns THEN "using_phone"
             ELSE "neutral"
    ELSE LET wrist == IF Kept(arg.kpts.left_wrist) THEN arg.kpts.left_wrist
                      ELSE arg.kpts.right_wrist
             diff == wrist.y - arg.kpts.nose.y
         IN  IF diff > arg.params.writing_threshold THEN "writing"
             ELSE IF diff < arg.params.phone_threshold THEN "using_phone"
             ELSE "resting"

\* C19: hand activity is computed from visible keypoints only: wrist_diff is
\* the mean y of the visible wrists minus the mean y of the visible shoulders
\* (or the visible wrist's y minus nose y in the nose-relative scheme), so a
\* wrist or shoulder that is not visible never influences the label;
\* wrist_diff > writing_threshold gives writing, wrist_diff < phone_threshold
\* gives using_phone, otherwise resting / neutral.
C19_HandActivityFromVisibleKeypoints ==
    HandClassified => out.hand_activity = HandLabelFromVisible


\* Both eyes and at least one ear are visible.
EarEyeVisible ==
    /\ arg.keypoints.left_eye.visible /\ arg.keypoints.right_eye.visible
    /\ arg.keypoints.left_ear.visible \/ arg.keypoints.right_ear.visible

\* The decision on an offset (both sides multiplied by scale > 0) with the
\* caller's thresholds.
ThresholdDecision(offset, scale) ==
    IF offset < arg.looking_up_threshold * scale THEN "looking_up"
    ELSE IF offset > arg.looking_down_threshold * scale THEN "looking_down"
    ELSE "neutral"

\* C20: _analyze_head_pose_ear_eye returns unknown exactly when fewer than
\* both eyes plus one ear are visible; otherwise the ear's signed offset from
\* the eye line is compared with the caller's thresholds (offset <
\* looking_up_threshold: looking_up, offset > looking_down_threshold:
\* looking_down, else neutral), and with horizontally coincident eyes the same
\* decision is made on the vertical difference between the ear and the eye
\* midpoint (taken with either sign).
C20_EarEyeDecision ==
    (done /\ op = "_analyze_head_pose_ear_eye") =>
        LET ear == IF arg.keypoints.left_ear.visible THEN arg.keypoints.left_ear
                   ELSE arg.keypoints.right_ear
            le == arg.keypoints.left_eye
            re == arg.keypoints.right_eye
            dx == re.x - le.x
            adx == IF dx > 0 THEN dx ELSE -dx
            sgn == IF dx > 0 THEN 1 ELSE -1
            offset == sgn * ((re.y - le.y) * (ear.x - le.x) + (le.y - ear.y) * dx)
            midpoint_diff2 == (le.y + re.y) - 2 * ear.y
        IN  /\ (out.head_pose = "unknown") <=> ~EarEyeVisible
            /\ (EarEyeVisible /\ dx # 0) =>
                   out.head_pose = ThresholdDecision(offset, adx)
            /\ (EarEyeVisible /\ dx = 0) =>
                   out.head_pose \in {ThresholdDecision(midpoint_diff2, 2),
                                      ThresholdDecision(-midpoint_diff2, 2)}


-----------------------------------------------------------------------------
(* Claims about keypoints that are not visible *)

\* What a classifier call reports for the head: its head_pose label, or
\* "no behavior" when it returns {} and the person is left out of every count.
HeadOutcome(behavior) ==
    IF "head_pose" \in behavior.keys THEN behavior.head_pose ELSE "no behavior"

\* A person none of whose head keypoints is detected, for each classifier.
HeadHiddenKpts ==
    [nose |-> Kpt(0, 10), left_eye |-> Kpt(0, 10), right_eye |-> Kpt(0, 10),
     left_shoulder |-> Kpt(90, 90), right_shoulder |-> Kpt(90, 90),
     left_wrist |-> Kpt(200, 90), right_wrist |-> Kpt(200, 90)]

HeadHiddenPoints ==
    [left_eye |-> Point(0, 0, FALSE), right_eye |-> Point(0, 0, FALSE),
     left_ear |-> Point(0, 0, FALSE), right_ear |-> Point(0, 0, FALSE)]

\* The keypoints that the called classifier needs for the head pose are not
\* all visible.
HeadNotVisible ==
    /\ done
    /\ CASE op = "BBoxTrackerAnalyzer._analyze_single_person_pose" ->
                ~HeadVisible(arg.kpts)
         [] op = "ClassroomBehaviorAnalyzer._analyze_single_person_pose" ->
                ~Kept(arg.kpts.nose) \/ ~Kept(arg.kpts.left_shoulder)
                    \/ ~Kept(arg.kpts.right_shoulder)
         [] op = "_analyze_head_pose_ear_eye" -> ~EarEyeVisible
         [] OTHER -> FALSE

\* The outcome of the call, as HeadOutcome.
CalledHeadOutcome ==
    IF op = "_analyze_head_pose_ear_eye" THEN out.head_pose ELSE HeadOutcome(out)

\* C21: when the keypoints required for head pose are not visible, the
\* shoulder-relative classifier, the nose/eye classifier of the bbox tracker
\* and the eye/ear classifier report the same outcome, and so the person is
\* counted the same way in the aggregates.
C21_OnePolicyForHiddenHead ==
    HeadNotVisible =>
        /\ CalledHeadOutcome =
               HeadOutcome(AnalyzeSinglePersonPose(DefaultBehaviorParams,
                                                   HeadHiddenKpts))
        /\ CalledHeadOutcome =
               HeadOutcome(BBoxSinglePersonPose(DefaultBehaviorParams, HeadHiddenKpts))
        /\ CalledHeadOutcome = AnalyzeHeadPoseEarEye(HeadHiddenPoints, 0, 2)


-----------------------------------------------------------------------------
(* Claims about the detection stride of analyze_video_class *)

\* The behaviors that _draw_behaviors puts on the frame being written: those
\* of latest_behaviors, none while it is None (the raw frame is written).
DrawnBehaviors ==
    IF latest_behaviors.set THEN latest_behaviors.behaviors ELSE <<>>

\* C22: in analyze_video_class every written output frame is annotated with
\* the result of the most recent detection run at or before that frame, also
\* when that detection found no persons, and frames on which detection was
\* not run contribute nothing to behavior_stats.
C22_AnnotatedWithLatestDetection ==
    /\ [](call = "class" /\ processed_count > 0 /\ c_result.run /\ c_result.success
            => DrawnBehaviors = c_result.behaviors)
    /\ [][(call = "class" /\ c_frame_idx % DetectEvery # 0) => c_stats' = c_stats]_vars


-----------------------------------------------------------------------------
(* Claims about the box given to the tracker *)

\* C23: tracker.init (of the primary tracker or of the MIL fallback) is only
\* called with a box x >= 0, y >= 0, w >= 10, h >= 10, x + w <= frame width,
\* y + h <= frame height; a box smaller than 10 x 10 is rejected before any
\* init call.
C23_InitReceivesTrackableBox ==
    (request = "bbox" /\ pc = "init") =>
        /\ bbox.x >= 0 /\ bbox.y >= 0
        /\ bbox.w >= MinBoxSize /\ bbox.h >= MinBoxSize
        /\ bbox.x + bbox.w <= FrameShape.width
        /\ bbox.y + bbox.h <= FrameShape.height

\* C23 witness: init is about to be called for an initial_bbox that reached
\* over the right and the lower edge of the first frame.
C23_ClippedBoxReachesInit ==
    /\ request = "bbox" /\ pc = "init"
    /\ initial_bbox.x + initial_bbox.width > FrameShape.width
    /\ initial_bbox.y + initial_bbox.height > FrameShape.height
    /\ bbox.x + bbox.w = FrameShape.width


\* C24: for any box and any frame size w x h, clamping yields a box whose
\* x1, x2 lie in [0, w) and whose y1, y2 lie in [0, h), for the initial-box
\* clamp of analyze_with_bbox and for the search window of the fallback search.
C24_ClampedInsideFrame ==
    (done /\ op \in ClampOps) =>
        /\ 0 <= out.x1 /\ out.x1 < FrameShape.width
        /\ 0 <= out.x2 /\ out.x2 < FrameShape.width
        /\ 0 <= out.y1 /\ out.y1 < FrameShape.height
        /\ 0 <= out.y2 /\ out.y2 < FrameShape.height


-----------------------------------------------------------------------------
(* Claims about the IoU implementations *)

Area(b) == (b.x2 - b.x1) * (b.y2 - b.y1)

\* The two boxes share no area.
Disjoint(a, b) ==
    a.x2 <= b.x1 \/ b.x2 <= a.x1 \/ a.y2 <= b.y1 \/ b.y2 <= a.y1

\* C25: for all integer boxes with x1 <= x2 and y1 <= y2 each IoU
\* implementation satisfies iou(a, a) = 1 when a has positive area,
\* iou(a, b) = 0 when a and b are disjoint or either has zero area (no
\* division by zero), iou(a, b) = iou(b, a), and 0 <= iou(a, b) <= 1.
C25_IouLaws ==
    (done /\ op \in IouOps) =>
        LET swapped == IouOf(op, arg.b, arg.a)
        IN  /\ out.den > 0
            /\ (arg.a = arg.b /\ Area(arg.a) > 0) => out.num = out.den
            /\ (Disjoint(arg.a, arg.b) \/ Area(arg.a) = 0 \/ Area(arg.b) = 0)
                   => out.num = 0
            /\ out.num * swapped.den = swapped.num * out.den
            /\ 0 <= out.num /\ out.num <= out.den

\* C25 witness: the array implementation on two boxes that are apart in x
\* and in y, where both x2 - x1 and y2 - y1 of the intersection are negative.
C25_DiagonallyApart ==
    /\ done /\ op = "IndividualBehaviorAnalyzer._calculate_iou"
    /\ arg.a.x2 < arg.b.x1 /\ arg.a.y2 < arg.b.y1
    /\ Area(arg.a) > 0 /\ Area(arg.b) > 0
    /\ out.num = 0


-----------------------------------------------------------------------------
(* Claims about the frame results *)

\* A frame on which the pipeline finds no subject.
NothingFound ==
    IF op = "frame result of _analyze_bbox_region"
    THEN BBoxTargetPose(arg.scene.poses, TargetRegion) = 0
    ELSE TargetFace(arg.scene.faces, 1,
                    [max_similarity |-> -100, target_face |-> 0]).target_face = 0

\* C26: every frame result of _analyze_bbox_region and of
\* _analyze_frame_for_student has the key behavior exactly when student_found
\* and pose_found are both true, pose_found implies student_found, and a frame
\* on which nothing is found gives, without an exception, a result that has
\* both flags, set to false.
C26_FrameResultShape ==
    (done /\ op \in FrameResultOps) =>
        /\ ~out.raises =>
              /\ "behavior" \in out.result.keys
                    <=> (out.result.student_found /\ out.result.pose_found)
              /\ out.result.pose_found => out.result.student_found
        /\ NothingFound =>
              /\ ~out.raises
              /\ {"student_found", "pose_found"} \subseteq out.result.keys
              /\ ~out.result.student_found /\ ~out.result.pose_found


-----------------------------------------------------------------------------
(* Claims about the frame accounting of analyze_with_bbox *)

\* C27: in analyze_with_bbox every frame is counted exactly once, whatever
\* the per-frame outcomes: after i frames frames_with_student +
\* frames_without_student = i (total_frames at the return) and
\* len(frame_results) = frames_with_student; a frame whose tracker update
\* fails increments the loss count, adds no frame result and leaves the same
\* tracker in place for the next frame.
C27_EveryFrameCountedOnce ==
    /\ []((request = "bbox" /\ pc \in {"frames", "returned"}) =>
            /\ frames_with_student + frames_without_student = frame_index
            /\ Len(frame_results) = frames_with_student
            /\ pc = "returned" => frame_index = Len(frames))
    /\ [][(/\ request = "bbox" /\ pc = "frames" /\ tracker # "None"
           /\ frame_index' = frame_index + 1
           /\ success' = "False")
          => /\ frames_without_student' = frames_without_student + 1
             /\ frame_results' = frame_results
             /\ tracker' = tracker /\ pc' = "frames"]_vars

\* C27 witness: analyze_with_bbox has returned after a frame whose tracker
\* update failed, followed by a tracked frame on which no pose was matched.
C27_LostThenTrackedWithoutPose ==
    /\ request = "bbox" /\ pc = "returned"
    /\ tracker # "None"
    /\ frames_without_student > 0
    /\ frame_results # <<>>
    /\ ~frame_results[Len(frame_results)].pose_found
    /\ frame_results[Len(frame_results)].frame_index > 0


-----------------------------------------------------------------------------
(* Claims about the flushing of batches *)

\* The sampled frames (0-based) that were read and gave a non-empty crop.
Collected ==
    {k - 1 : k \in {j \in 1..Len(cap) :
                       cap[j].ret /\ CroppedSize(cap[j], target) > 0}}

\* C28: when _analyze_with_batch returns, every sampled frame that was read
\* and cropped has been passed to _process_batch and no collected frame is
\* left in a partial batch, whichever sampled frames failed to read.
C28_NoUnflushedBatch ==
    BatchDone => /\ batch_frames = <<>>
                 /\ Collected \subseteq processed


-----------------------------------------------------------------------------
(* Claims about the default thresholds *)

\* C29: every call of _analyze_head_pose_ear_eye reached through a public
\* entry point with its default arguments has looking_up_threshold <=
\* looking_down_threshold, the precondition under which looking_up, neutral
\* and looking_down can all be returned for non-coincident eyes.
C29_DefaultThresholdsOrdered ==
    (done /\ op = "entry point with default thresholds") =>
        out.looking_up_threshold <= out.looking_down_threshold


-----------------------------------------------------------------------------
(* Claims about the deduplication of detected faces *)

\* C30: for any list of detected faces, equal detection scores included, the
\* list returned by smart_deduplication holds only faces of the input and no
\* two faces whose boxes have IoU > 0.3.
C30_DeduplicatedNoOverlap ==
    (done /\ op = "smart_deduplication") =>
        /\ \A k \in 1..Len(out) : \E j \in 1..Len(arg) : out[k] = arg[j]
        /\ \A i, j \in 1..Len(out) :
              i # j => ~RatioLess(Ratio(3, 10),
                                  AppCalculateIou(out[i].bbox, out[j].bbox))

=============================================================================
